---- MODULE Spec2Model ----
(***************************************************************************)
(* Cafe ordering back end (Crafty4/web1): the order lifecycle, the menu    *)
(* availability rules and the notification side channel, as a state        *)
(* machine over the MongoDB collections the route handlers read and write. *)
(*                                                                         *)
(* Time is the server's wall clock (Date.now()), counted in minutes.       *)
(* A route handler that awaits the data store more than once between a     *)
(* read and a dependent write is modelled as one step per round trip; a    *)
(* handler whose only follow-up is the notification insert is one step.    *)
(* Spec, SpecAvail and SpecMenu run one request at a time; SpecConcList    *)
(* and SpecConcMenu interleave the steps of concurrent requests.           *)
(* The browser's cart provider is a state of its own: cafeCarts and        *)
(* activeCafeSlug change only under SpecCart.                              *)
(***************************************************************************)
EXTENDS Integers, Sequences, FiniteSets, Bags, TLC

VARIABLES
    now,            \* Date.now(), in minutes
    orders,         \* the Order collection: _id -> document
    nextOrderId,    \* the next fresh Order _id
    menu,           \* the MenuItem collection: _id -> document
    notifications,  \* the Notification collection: a bag of documents
    sinkUp,         \* whether notification.save() currently succeeds
    cancelReq,      \* the customer-cancel request in flight (PUT orders/[id])
    listReq,        \* the listing request in flight (GET orders)
    menuReq,        \* the menu-update requests in flight (PATCH menu/[id])
    lastMenuRead,   \* history: the last menu read, while no menu write followed it
    markedAt,       \* history: when each item was last marked unavailable
    resp,           \* the response of the request that completed last
    ratings,        \* the Rating collection: a bag of documents
    rateReq,        \* the rating requests in flight (POST ratings)
    users,          \* the User collection: _id -> document
    authReq,        \* the register and update-credentials requests in flight
    cached,         \* connectDB's global cache: conn and promise
    attempts,       \* the mongoose.connect promises created so far
    jobs,           \* the queue of continuations ready to run
    connReq,        \* the connectDB calls
    cafeCarts,      \* the cart provider's carts: cafe slug -> entries
    activeCafeSlug  \* the cart provider's active cafe

vars == <<now, orders, nextOrderId, menu, notifications, sinkUp,
          cancelReq, listReq, menuReq, lastMenuRead, markedAt, resp,
          ratings, rateReq, users, authReq, cached, attempts, jobs, connReq,
          cafeCarts, activeCafeSlug>>

----------------------------------------------------------------------------
(* Bounds of the model *)

MaxOrders == 2
MaxTime == 6
MaxNotifs == 3
MaxAvailNotifs == 1
MaxConcOrders == 1
MaxConcTime == 3
MaxDays == 1
MaxRateOrders == 2
MaxFrameOrders == 1
MaxCreateOrders == 2
MaxAdminOrders == 1
MaxAdminNotifs == 2
MaxLiveOrders == 2
MaxLiveTime == 4
MaxLiveNotifs == 3
MaxEditOrders == 2
MaxEditNotifs == 4
MaxRestoreOrders == 2
MaxRestoreNotifs == 3
MaxQuantity == 3
MaxListOrders == 2
MaxListNotifs == 3
MaxNotifOrders == 1
MaxNotifNotifs == 2
MaxAuthOrders == 1
MaxAuthTime == 3
MaxAuthNotifs == 2
MaxFrameTime == 3

(* Program constants *)

\* one minute of the clock (the code writes it 60 * 1000 ms)
MinuteMs == 1
AUTO_CANCEL_MINUTES == 2
BUFFER_TIME_MS == 5 * MinuteMs
HourMs == 60 * MinuteMs
DayMs == 24 * HourMs

----------------------------------------------------------------------------
(* Callers, menu items, carts *)

Customers == {"u1", "u2"}

\* a caller's Authorization header: its scheme ("" when the header is
\* missing), whether the token after "Bearer " is well formed and signed with
\* JWT_SECRET, whether it has expired, and the payload's userId and role
Credential(scheme, valid, expired, userId, role) ==
    [scheme |-> scheme, valid |-> valid, expired |-> expired,
     userId |-> userId, role |-> role]

tokU1 == Credential("Bearer", TRUE, FALSE, "u1", "user")
tokU2 == Credential("Bearer", TRUE, FALSE, "u2", "user")
tokAdmin == Credential("Bearer", TRUE, FALSE, "adm", "admin")
\* a bearer token that jwt.verify refuses: malformed or badly signed
BadToken == Credential("Bearer", FALSE, FALSE, "none", "none")
\* an administrator's token past its expiry
ExpiredToken == Credential("Bearer", TRUE, TRUE, "adm", "admin")
\* no Authorization header
NoHeader == Credential("", FALSE, FALSE, "none", "none")
\* an Authorization header that does not start with "Bearer ", around an
\* administrator's token
BasicHeader == Credential("Basic", TRUE, FALSE, "adm", "admin")

\* the credentials every protected operation refuses with 401
Refused == {NoHeader, BasicHeader, BadToken, ExpiredToken}

Tokens == {tokU1, tokU2, tokAdmin, BadToken}

ItemIds == {"i1", "i2"}
\* an _id no MenuItem document has
NoItem == "i9"

\* the cafes a cart is kept for
CafeSlugs == {"aroma", "delight"}
\* activeCafeSlug while no cafe page was opened (null)
NoCafe == "null"
\* the carts of a fresh provider: the object {}
NoCarts == [slug \in {} |-> <<>>]

\* the price the menu lists an item at when the system starts
ListPrice(i) == IF i = "i1" THEN 10 ELSE 5

Line(i, p, q) == [itemId |-> i, price |-> p, quantity |-> q]

CartBoth == <<Line("i1", 10, 2), Line("i2", 5, 1)>>
CartOne == <<Line("i2", 5, 1)>>
CartZeroQty == <<Line("i1", 10, 0)>>

Carts == {CartBoth, CartOne, <<>>, CartZeroQty}

Statuses == {"pending", "accepted", "rejected", "completed", "cancelled"}

NoBody == <<>>

\* a response: the request it answers, the HTTP status, the error text, and for a listing the time its
\* sweep used and the orders returned
Response(op, code, error, at, body) ==
    [op |-> op, code |-> code, error |-> error, at |-> at, body |-> body]

Fail(op, code, error) == Response(op, code, error, 0, NoBody)

Ok(op) == Response(op, 200, "", 0, NoBody)

\* the requests' local variables; "history" marks what only the properties read
IdleCancel == [pc |-> "idle", tok |-> BadToken, id |-> 0, currentTime |-> 0]
IdleList == [pc |-> "idle", tok |-> BadToken, cancelBefore |-> 0, at |-> 0,
             wasPending |-> {}]              \* history: pending before the sweep
IdleMenu == [pc |-> "idle", item |-> NoItem, has |-> FALSE, val |-> FALSE,
             marked |-> FALSE, activeOrders |-> <<>>, k |-> 0,
             base |-> <<>>]                  \* history: notifications at the find

MenuSlots == {1, 2}

RateSlots == {1, 2}

\* rating values and averages are counted in hundredths
NoAggregate == [rating |-> 0, ratingCount |-> 0]

IdleRate == [pc |-> "idle", user |-> "none", menuItem |-> NoItem,
             numericRating |-> 0, agg |-> NoAggregate,
             alone |-> TRUE]    \* history: no other rating request overlapped

----------------------------------------------------------------------------
(* Helpers *)

\* the reduce of POST /api/orders without the quantity factor
RECURSIVE SumPrices(_)
SumPrices(items) ==
    IF items = <<>> THEN 0
    ELSE Head(items).price + SumPrices(Tail(items))

RECURSIVE SumLines(_)
SumLines(items) ==
    IF items = <<>> THEN 0
    ELSE Head(items).price * Head(items).quantity + SumLines(Tail(items))

HasItem(order, item) ==
    \E k \in 1..Len(order.items) : order.items[k].itemId = item

RECURSIVE SortedIds(_)
SortedIds(S) ==
    IF S = {} THEN <<>>
    ELSE LET m == CHOOSE x \in S : \A y \in S : x <= y
         IN <<m>> \o SortedIds(S \ {m})

\* authHeader && authHeader.startsWith("Bearer ")
hasBearer(tok) == tok.scheme = "Bearer"

\* jwt.verify returns the payload of a signed, unexpired token and throws
\* otherwise
jwtVerify(tok) == tok.valid /\ ~tok.expired

\* the header test and jwt.verify that open every protected handler: "" when
\* both pass, else the text of the 401
authError(tok) ==
    IF ~hasBearer(tok) THEN "Unauthorized"
    ELSE IF ~jwtVerify(tok) THEN "Invalid token"
    ELSE ""

\* verifyAdmin: "" when the caller is an administrator, else the error
verifyAdmin(tok) ==
    IF authError(tok) # "" THEN [error |-> authError(tok), status |-> 401]
    ELSE IF tok.role # "admin"
         THEN [error |-> "Unauthorized - admin access required", status |-> 403]
         ELSE [error |-> "", status |-> 200]

\* a notification's text: what happened to the order and, for an
\* availability-triggered cancellation, the item that ran out
Message(what, item) == <<what, item>>

Notification(userId, orderId, message, type) ==
    [user |-> userId, orderId |-> orderId, message |-> message,
     type |-> type, read |-> FALSE]

\* createNotification: the insert, with every failure caught and swallowed
createNotificationRethrows(ns, up, n) ==
    IF up THEN [notifications |-> ns (+) SetToBag({n}), threw |-> FALSE]
    ELSE [notifications |-> ns, threw |-> TRUE]

createNotification(ns, up, n) ==
    IF up THEN [notifications |-> ns (+) SetToBag({n}), threw |-> FALSE]
    ELSE [notifications |-> ns, threw |-> FALSE]

\* the filter of the auto-expiry updateMany
sweepFilterInclusive(order, cancelBefore) ==
    order.status = "pending" /\ order.createdAt <= cancelBefore

sweepFilterNewer(order, cancelBefore) ==
    order.status = "pending" /\ order.createdAt > cancelBefore

sweepFilterAnyStatus(order, cancelBefore) == order.createdAt < cancelBefore

sweepFilter(order, cancelBefore) ==
    order.status = "pending" /\ order.createdAt < cancelBefore

\* the administrator's status whitelist
validStatus(s) ==
    s \in {"pending", "accepted", "rejected", "completed", "cancelled"}

\* the notification an administrator transition sends (none for "pending")
transitionType(newStatus) ==
    CASE newStatus = "accepted" -> "order_accepted"
      [] newStatus = "rejected" -> "order_rejected"
      [] newStatus = "completed" -> "order_completed"
      [] newStatus = "cancelled" -> "order_cancelled"
      [] OTHER -> ""

\* Mongoose's validation of a new Order document
\* the schema's validation of a new order without the minimum on quantity
orderValidAnyQuantity(items) == TRUE

\* the schema's validation of a new order: quantity has min 1
orderValid(items) ==
    \A k \in 1..Len(items) : items[k].quantity >= 1

WindowExpired ==
    "Cancellation window has expired. Orders can only be cancelled within 5 minutes of placement."

\* the customer cancel's checks after the order was found: "" lets it through
cancelRefusalNoWindow(order, tok, t) ==
    IF order.user # tok.userId
    THEN "Unauthorized - you can only cancel your own orders"
    ELSE IF order.status = "rejected" THEN "Cannot cancel a rejected order"
    ELSE IF order.status = "cancelled" THEN "Order is already cancelled"
    ELSE ""

cancelRefusalStrictWindow(order, tok, t) ==
    IF order.user # tok.userId
    THEN "Unauthorized - you can only cancel your own orders"
    ELSE IF order.status = "rejected" THEN "Cannot cancel a rejected order"
    ELSE IF order.status = "cancelled" THEN "Order is already cancelled"
    ELSE IF t - order.createdAt >= BUFFER_TIME_MS
    THEN WindowExpired
    ELSE ""

cancelRefusal(order, tok, t) ==
    IF order.user # tok.userId
    THEN "Unauthorized - you can only cancel your own orders"
    ELSE IF order.status = "rejected" THEN "Cannot cancel a rejected order"
    ELSE IF order.status = "cancelled" THEN "Order is already cancelled"
    ELSE IF t - order.createdAt > BUFFER_TIME_MS
    THEN WindowExpired
    ELSE ""

cancelRefusalCode(error) ==
    IF error = "Unauthorized - you can only cancel your own orders" THEN 403
    ELSE 400

\* the users stored at the start: the two customers and the administrator
SeedUsers ==
    [id \in {"u1", "u2", "adm"} |->
        [username |-> CASE id = "u1" -> "ann" [] id = "u2" -> "bob"
                         [] OTHER -> "admin",
         role |-> IF id = "adm" THEN "admin" ELSE "user"]]

\* the register and update-credentials requests that may overlap
AuthSlots == {1, 2}

IdleAuth == [pc |-> "idle", op |-> "none", user |-> "none", username |-> ""]

\* the callers of connectDB
ConnCallers == {1, 2, 3}

\* a call: where it stands, the promise it awaits (0: none) and what it got
\* (0: nothing yet, -1: the error thrown, k: the connection of attempt k)
IdleConn == [pc |-> "idle", awaiting |-> 0, result |-> 0]

AllIdle ==
    /\ cancelReq.pc = "idle"
    /\ listReq.pc = "idle"
    /\ \A s \in MenuSlots : menuReq[s].pc = "idle"
    /\ \A s \in RateSlots : rateReq[s].pc = "idle"

----------------------------------------------------------------------------
InitAt(t) ==
    /\ now = t
    /\ orders = <<>>
    /\ nextOrderId = 1
    /\ menu = [i \in ItemIds |-> [isAvailable |-> TRUE, updatedAt |-> t,
                                   rating |-> 0, ratingCount |-> 0,
                                   price |-> ListPrice(i)]]
    /\ notifications = EmptyBag
    /\ sinkUp = TRUE
    /\ cancelReq = IdleCancel
    /\ listReq = IdleList
    /\ menuReq = [s \in MenuSlots |-> IdleMenu]
    /\ lastMenuRead = <<>>
    /\ markedAt = [i \in ItemIds |-> t]
    /\ resp = Fail("none", 0, "")
    /\ ratings = EmptyBag
    /\ rateReq = [s \in RateSlots |-> IdleRate]
    /\ users = SeedUsers
    /\ authReq = [s \in AuthSlots |-> IdleAuth]
    /\ cached = [conn |-> 0, promise |-> 0]
    /\ attempts = <<>>
    /\ jobs = <<>>
    /\ connReq = [c \in ConnCallers |-> IdleConn]
    /\ cafeCarts = NoCarts
    /\ activeCafeSlug = NoCafe

Init == InitAt(0)

----------------------------------------------------------------------------
(* The clock *)

Tick ==
    /\ UNCHANGED <<ratings, rateReq>>
    /\ UNCHANGED <<cafeCarts, activeCafeSlug>>
    /\ UNCHANGED <<users, authReq, cached, attempts, jobs, connReq>>
    /\ now' = now + MinuteMs
    /\ UNCHANGED <<orders, nextOrderId, menu, notifications, sinkUp,
                   cancelReq, listReq, menuReq, lastMenuRead, markedAt, resp>>

\* the notification store starts or stops failing
SinkToggle ==
    /\ UNCHANGED <<ratings, rateReq>>
    /\ UNCHANGED <<cafeCarts, activeCafeSlug>>
    /\ UNCHANGED <<users, authReq, cached, attempts, jobs, connReq>>
    /\ sinkUp' = ~sinkUp
    /\ UNCHANGED <<now, orders, nextOrderId, menu, notifications,
                   cancelReq, listReq, menuReq, lastMenuRead, markedAt, resp>>

----------------------------------------------------------------------------
(* POST /api/orders *)

\* the order document POST /api/orders builds, whose status is the literal
\* "pending" and whose user is the token's
newOrderAccepted(userId, items, t) ==
    [user |-> userId, items |-> items, totalAmount |-> SumLines(items),
     status |-> "accepted", createdAt |-> t]

newOrder(userId, items, t) ==
    [user |-> userId, items |-> items, totalAmount |-> SumLines(items),
     status |-> "pending", createdAt |-> t]

CreateOrder(tok, items, infoOk) ==
    /\ UNCHANGED <<ratings, rateReq>>
    /\ UNCHANGED <<cafeCarts, activeCafeSlug>>
    /\ UNCHANGED <<users, authReq, cached, attempts, jobs, connReq>>
    /\ UNCHANGED <<now, menu, sinkUp, cancelReq, listReq, menuReq, lastMenuRead, markedAt>>
    /\ IF authError(tok) # ""
       THEN /\ resp' = Fail("createOrder", 401, authError(tok))
            /\ UNCHANGED <<orders, nextOrderId, notifications>>
       ELSE IF Len(items) = 0
       THEN /\ resp' = Fail("createOrder", 400, "Cart is empty")
            /\ UNCHANGED <<orders, nextOrderId, notifications>>
       ELSE IF ~infoOk
       THEN /\ resp' = Fail("createOrder", 400, "Customer information is required")
            /\ UNCHANGED <<orders, nextOrderId, notifications>>
       ELSE IF ~orderValid(items)
       THEN /\ resp' = Fail("createOrder", 500, "Failed to create order")
            /\ UNCHANGED <<orders, nextOrderId, notifications>>
       ELSE LET id == nextOrderId
                order == newOrder(tok.userId, items, now)
                r == createNotification(notifications, sinkUp,
                         Notification(tok.userId, id, Message("placed", ""), "order_placed"))
            IN /\ orders' = orders @@ (id :> order)
               /\ nextOrderId' = id + 1
               /\ notifications' = r.notifications
               /\ resp' = IF r.threw
                          THEN Fail("createOrder", 500, "Failed to create order")
                          ELSE Ok("createOrder")

\* a request body of POST /api/orders; status, which the handler does not
\* read, is "" when the body has none
OrderBody(items, name, phone, address, status) ==
    [items |-> items, customerName |-> name, customerPhone |-> phone,
     customerAddress |-> address, status |-> status]

OrderBodies ==
    {OrderBody(items, name, phone, address, status) :
        items \in {CartOne, <<>>, CartZeroQty}, name \in {"", "Ann"},
        phone \in {"", "555"}, address \in {"", "1 Main St"},
        status \in {"", "completed"}}

\* the handler's test of the customer fields
customerInfoWithoutAddress(body) ==
    body.customerName # "" /\ body.customerPhone # ""

customerInfoGiven(body) ==
    body.customerName # "" /\ body.customerPhone # "" /\ body.customerAddress # ""

\* the handler on a whole body: items and the customer fields are taken from
\* it, everything else in it is dropped
PostOrders(tok, body) == CreateOrder(tok, body.items, customerInfoGiven(body))

----------------------------------------------------------------------------
(* PATCH /api/orders/[id]: the administrator's transition *)

AdminTransition(tok, id, newStatus) ==
    /\ UNCHANGED <<ratings, rateReq>>
    /\ UNCHANGED <<cafeCarts, activeCafeSlug>>
    /\ UNCHANGED <<users, authReq, cached, attempts, jobs, connReq>>
    /\ UNCHANGED <<now, nextOrderId, menu, sinkUp, cancelReq, listReq, menuReq,
                   lastMenuRead, markedAt>>
    /\ LET a == verifyAdmin(tok)
       IN IF a.error # ""
          THEN /\ resp' = Fail("transition", a.status, a.error)
               /\ UNCHANGED <<orders, notifications>>
          ELSE IF ~validStatus(newStatus)
          THEN /\ resp' = Fail("transition", 400, "Valid status is required")
               /\ UNCHANGED <<orders, notifications>>
          ELSE IF id \notin DOMAIN orders
          THEN /\ resp' = Fail("transition", 404, "Order not found")
               /\ UNCHANGED <<orders, notifications>>
          ELSE LET order == [orders[id] EXCEPT !.status = newStatus]
                   type == transitionType(newStatus)
                   r == IF type = ""
                        THEN [notifications |-> notifications, threw |-> FALSE]
                        ELSE createNotification(notifications, sinkUp,
                                 Notification(order.user, id, Message(newStatus, ""), type))
               IN /\ orders' = [orders EXCEPT ![id] = order]
                  /\ notifications' = r.notifications
                  /\ resp' = IF r.threw
                             THEN Fail("transition", 500, "Failed to update order")
                             ELSE Ok("transition")

----------------------------------------------------------------------------
(* PUT /api/orders/[id]: the customer's cancel *)

\* findById and the checks, up to the await of order.save()
CancelCheck(tok, id) ==
    /\ UNCHANGED <<ratings, rateReq>>
    /\ UNCHANGED <<cafeCarts, activeCafeSlug>>
    /\ UNCHANGED <<users, authReq, cached, attempts, jobs, connReq>>
    /\ cancelReq.pc = "idle"
    /\ UNCHANGED <<now, orders, nextOrderId, menu, notifications, sinkUp,
                   listReq, menuReq, lastMenuRead, markedAt>>
    /\ IF authError(tok) # ""
       THEN /\ resp' = Fail("cancel", 401, authError(tok))
            /\ UNCHANGED cancelReq
       ELSE IF id \notin DOMAIN orders
       THEN /\ resp' = Fail("cancel", 404, "Order not found")
            /\ UNCHANGED cancelReq
       ELSE LET error == cancelRefusal(orders[id], tok, now)
            IN IF error # ""
               THEN /\ resp' = Response("cancel", cancelRefusalCode(error), error,
                                        IF error = WindowExpired THEN now ELSE 0,
                                        NoBody)
                    /\ UNCHANGED cancelReq
               ELSE /\ cancelReq' = [pc |-> "save", tok |-> tok, id |-> id,
                                     currentTime |-> now]
                    /\ UNCHANGED resp

\* order.save() writes the status; a deleted document makes it throw
CancelSave ==
    /\ UNCHANGED <<ratings, rateReq>>
    /\ UNCHANGED <<cafeCarts, activeCafeSlug>>
    /\ UNCHANGED <<users, authReq, cached, attempts, jobs, connReq>>
    /\ cancelReq.pc = "save"
    /\ cancelReq' = IdleCancel
    /\ UNCHANGED <<now, nextOrderId, menu, sinkUp, listReq, menuReq, lastMenuRead, markedAt>>
    /\ LET id == cancelReq.id
       IN IF id \notin DOMAIN orders
          THEN /\ resp' = Fail("cancel", 500, "Failed to cancel order")
               /\ UNCHANGED <<orders, notifications>>
          ELSE LET order == [orders[id] EXCEPT !.status = "cancelled"]
                   r == createNotification(notifications, sinkUp,
                            Notification(cancelReq.tok.userId, id,
                                         Message("cancelled", ""),
                                         "order_cancelled"))
               IN /\ orders' = [orders EXCEPT ![id] = order]
                  /\ notifications' = r.notifications
                  /\ resp' = IF r.threw
                             THEN Fail("cancel", 500, "Failed to cancel order")
                             ELSE Response("cancel", 200, "",
                                           cancelReq.currentTime, NoBody)

----------------------------------------------------------------------------
(* GET /api/orders: the auto-expiry sweep, then the read *)

ListSweep(tok) ==
    /\ UNCHANGED <<ratings, rateReq>>
    /\ UNCHANGED <<cafeCarts, activeCafeSlug>>
    /\ UNCHANGED <<users, authReq, cached, attempts, jobs, connReq>>
    /\ listReq.pc = "idle"
    /\ UNCHANGED <<now, nextOrderId, menu, notifications, sinkUp, cancelReq,
                   menuReq, lastMenuRead, markedAt>>
    /\ IF authError(tok) # ""
       THEN /\ resp' = Fail("list", 401, authError(tok))
            /\ UNCHANGED <<orders, listReq>>
       ELSE LET cancelBefore == now - AUTO_CANCEL_MINUTES * MinuteMs
            IN /\ orders' = [id \in DOMAIN orders |->
                               IF sweepFilter(orders[id], cancelBefore)
                               THEN [orders[id] EXCEPT !.status = "cancelled"]
                               ELSE orders[id]]
               /\ listReq' = [pc |-> "read", tok |-> tok,
                              cancelBefore |-> cancelBefore, at |-> now,
                              wasPending |-> {id \in DOMAIN orders :
                                                orders[id].status = "pending"}]
               /\ UNCHANGED resp

\* the orders a listing returns to a caller
visibleToAnyone(tok) == DOMAIN orders

visibleTo(tok) ==
    IF tok.role = "admin" THEN DOMAIN orders
    ELSE {id \in DOMAIN orders : orders[id].user = tok.userId}

ListRead ==
    /\ UNCHANGED <<ratings, rateReq>>
    /\ UNCHANGED <<cafeCarts, activeCafeSlug>>
    /\ UNCHANGED <<users, authReq, cached, attempts, jobs, connReq>>
    /\ listReq.pc = "read"
    /\ listReq' = IdleList
    /\ resp' = Response("list", 200, "", listReq.at,
                        [id \in visibleTo(listReq.tok) |-> orders[id]])
    /\ UNCHANGED <<now, orders, nextOrderId, menu, notifications, sinkUp,
                   cancelReq, menuReq, lastMenuRead, markedAt>>

----------------------------------------------------------------------------
(* DELETE /api/orders/[id] *)

\* the deletion, taking the order's notifications with it
DeleteOrderAndNotifications(tok, id) ==
    /\ UNCHANGED <<ratings, rateReq>>
    /\ UNCHANGED <<cafeCarts, activeCafeSlug>>
    /\ UNCHANGED <<users, authReq, cached, attempts, jobs, connReq>>
    /\ UNCHANGED <<now, nextOrderId, menu, sinkUp, cancelReq,
                   listReq, menuReq, lastMenuRead, markedAt>>
    /\ LET a == verifyAdmin(tok)
       IN IF a.error # ""
          THEN /\ resp' = Fail("deleteOrder", a.status, a.error)
               /\ UNCHANGED <<orders, notifications>>
          ELSE IF id \notin DOMAIN orders
          THEN /\ resp' = Fail("deleteOrder", 404, "Order not found")
               /\ UNCHANGED <<orders, notifications>>
          ELSE /\ orders' = [i \in DOMAIN orders \ {id} |-> orders[i]]
               /\ notifications' = [n \in {m \in DOMAIN notifications : m.orderId # id}
                                      |-> notifications[n]]
               /\ resp' = Ok("deleteOrder")

DeleteOrder(tok, id) ==
    /\ UNCHANGED <<ratings, rateReq>>
    /\ UNCHANGED <<cafeCarts, activeCafeSlug>>
    /\ UNCHANGED <<users, authReq, cached, attempts, jobs, connReq>>
    /\ UNCHANGED <<now, nextOrderId, menu, notifications, sinkUp, cancelReq,
                   listReq, menuReq, lastMenuRead, markedAt>>
    /\ LET a == verifyAdmin(tok)
       IN IF a.error # ""
          THEN /\ resp' = Fail("deleteOrder", a.status, a.error)
               /\ UNCHANGED orders
          ELSE IF id \notin DOMAIN orders
          THEN /\ resp' = Fail("deleteOrder", 404, "Order not found")
               /\ UNCHANGED orders
          ELSE /\ orders' = [i \in DOMAIN orders \ {id} |-> orders[i]]
               /\ resp' = Ok("deleteOrder")

----------------------------------------------------------------------------
(* PATCH /api/menu/[id]: the administrator's menu update *)

\* a request body: whether its name, if given, is a non-empty string, whether
\* it carries isAvailable, and the JSON value carried ("undefined": none)
MenuBodies ==
    {[valid |-> v, has |-> TRUE, val |-> a] :
        v \in BOOLEAN, a \in {"true", "false", "0", "1"}} \cup
    {[valid |-> v, has |-> FALSE, val |-> "undefined"] : v \in BOOLEAN}

\* JavaScript's Boolean(value) on these values
Boolean(value) == value \in {"true", "1"}

\* item?.isAvailable !== false, read before the update
wasAvailable(item) ==
    IF item \in DOMAIN menu THEN menu[item].isAvailable # FALSE ELSE TRUE

isBeingMarkedAnything(body, was) == body.has

isBeingMarkedUnavailable(body, was) ==
    body.has /\ body.val = "false" /\ was

\* the filter of the Order.find of the availability-triggered cancellation
activeFilter(order, item) ==
    order.status \in {"pending", "accepted"} /\ HasItem(order, item)

\* verifyAdmin, the body's validation and the read of the item's availability
MenuPatchStart(s, tok, item, body) ==
    /\ UNCHANGED <<ratings, rateReq>>
    /\ UNCHANGED <<cafeCarts, activeCafeSlug>>
    /\ UNCHANGED <<users, authReq, cached, attempts, jobs, connReq>>
    /\ menuReq[s].pc = "idle"
    /\ UNCHANGED <<now, orders, nextOrderId, menu, notifications, sinkUp,
                   cancelReq, listReq, lastMenuRead, markedAt>>
    /\ LET a == verifyAdmin(tok)
       IN IF a.error # ""
          THEN /\ resp' = Fail("menuPatch", a.status, a.error)
               /\ UNCHANGED menuReq
          ELSE IF ~body.valid
          THEN /\ resp' = Fail("menuPatch", 400, "Name must be a non-empty string")
               /\ UNCHANGED menuReq
          ELSE /\ menuReq' = [menuReq EXCEPT ![s] =
                     [pc |-> "update", item |-> item, has |-> body.has,
                      val |-> Boolean(body.val),
                      marked |-> isBeingMarkedUnavailable(body, wasAvailable(item)),
                      activeOrders |-> <<>>, k |-> 0, base |-> <<>>]]
               /\ UNCHANGED resp

\* MenuItem.findByIdAndUpdate; Mongoose stamps updatedAt on every update
MenuPatchUpdate(s) ==
    /\ UNCHANGED <<ratings, rateReq>>
    /\ UNCHANGED <<cafeCarts, activeCafeSlug>>
    /\ UNCHANGED <<users, authReq, cached, attempts, jobs, connReq>>
    /\ menuReq[s].pc = "update"
    /\ UNCHANGED <<now, orders, nextOrderId, notifications, sinkUp, cancelReq,
                   listReq>>
    /\ LET r == menuReq[s]
       IN IF r.item \notin DOMAIN menu
          THEN /\ resp' = Fail("menuPatch", 404, "Menu item not found")
               /\ menuReq' = [menuReq EXCEPT ![s] = IdleMenu]
               /\ UNCHANGED <<menu, lastMenuRead, markedAt>>
          ELSE /\ menu' = [menu EXCEPT ![r.item] =
                     [@ EXCEPT !.isAvailable = IF r.has THEN r.val ELSE @,
                               !.updatedAt = now]]
               /\ lastMenuRead' = <<>>
               /\ markedAt' = IF r.has /\ ~r.val
                               THEN [markedAt EXCEPT ![r.item] = now]
                               ELSE markedAt
               /\ IF r.marked
                  THEN /\ menuReq' = [menuReq EXCEPT ![s].pc = "find"]
                       /\ UNCHANGED resp
                  ELSE /\ menuReq' = [menuReq EXCEPT ![s] = IdleMenu]
                       /\ resp' = Ok("menuPatch")

\* the notification of an availability-triggered cancellation
unavailableNotice(order, id, item) ==
    Notification(order.user, id, Message("unavailable", item), "order_cancelled")

\* Order.find of the active orders that hold the item
MenuPatchFind(s) ==
    /\ UNCHANGED <<ratings, rateReq>>
    /\ UNCHANGED <<cafeCarts, activeCafeSlug>>
    /\ UNCHANGED <<users, authReq, cached, attempts, jobs, connReq>>
    /\ menuReq[s].pc = "find"
    /\ UNCHANGED <<now, orders, nextOrderId, menu, notifications, sinkUp,
                   cancelReq, listReq, lastMenuRead, markedAt>>
    /\ LET item == menuReq[s].item
           found == SortedIds({id \in DOMAIN orders :
                                  activeFilter(orders[id], item)})
       IN IF found = <<>>
          THEN /\ menuReq' = [menuReq EXCEPT ![s] = IdleMenu]
               /\ resp' = Ok("menuPatch")
          ELSE /\ menuReq' = [menuReq EXCEPT
                     ![s].pc = "loop", ![s].activeOrders = found, ![s].k = 1,
                     ![s].base = [n \in 1..Len(found) |->
                         CopiesIn(unavailableNotice(orders[found[n]], found[n],
                                                    item), notifications)]]
               /\ UNCHANGED resp

\* one round of the loop: order.save(), then createNotification; a throw of
\* either ends the loop in the catch around it and the request still succeeds
MenuPatchCancel(s) ==
    /\ UNCHANGED <<ratings, rateReq>>
    /\ UNCHANGED <<cafeCarts, activeCafeSlug>>
    /\ UNCHANGED <<users, authReq, cached, attempts, jobs, connReq>>
    /\ menuReq[s].pc = "loop"
    /\ UNCHANGED <<now, nextOrderId, menu, sinkUp, cancelReq, listReq,
                   lastMenuRead, markedAt>>
    /\ LET r == menuReq[s]
           id == r.activeOrders[r.k]
       IN IF id \notin DOMAIN orders
          THEN /\ menuReq' = [menuReq EXCEPT ![s] = IdleMenu]
               /\ resp' = Ok("menuPatch")
               /\ UNCHANGED <<orders, notifications>>
          ELSE LET n == createNotification(notifications, sinkUp,
                            unavailableNotice(orders[id], id, r.item))
                   last == n.threw \/ r.k = Len(r.activeOrders)
               IN /\ orders' = [orders EXCEPT ![id].status = "cancelled"]
                  /\ notifications' = n.notifications
                  /\ menuReq' = [menuReq EXCEPT ![s] =
                                   IF last THEN IdleMenu
                                   ELSE [r EXCEPT !.k = r.k + 1]]
                  /\ resp' = IF last THEN Ok("menuPatch") ELSE resp

----------------------------------------------------------------------------
(* GET /api/menu: the daily restoration, then the read *)

\* Date's local hour and minute of an instant, and 09:00:00.000 of its day
getHours(t) == (t % DayMs) \div HourMs

getMinutes(t) == (t % HourMs) \div MinuteMs

todayAt9AMIsNow(t) == t

todayAt9AM(t) == (t \div DayMs) * DayMs + 9 * HourMs

\* the filter of the restoring updateMany
restoreFilterInclusive(item, before) ==
    item.isAvailable = FALSE /\ item.updatedAt <= before

restoreFilter(item, before) ==
    item.isAvailable = FALSE /\ item.updatedAt < before

\* the condition under which a menu read runs the restoration
afterNine(t) ==
    getHours(t) > 9 \/ (getHours(t) = 9 /\ getMinutes(t) >= 0)

sameDay(t1, t2) == t1 \div DayMs = t2 \div DayMs

MenuGet ==
    /\ UNCHANGED <<ratings, rateReq>>
    /\ UNCHANGED <<cafeCarts, activeCafeSlug>>
    /\ UNCHANGED <<users, authReq, cached, attempts, jobs, connReq>>
    /\ UNCHANGED <<orders, nextOrderId, notifications, sinkUp, cancelReq,
                   listReq, menuReq, markedAt, now>>
    /\ LET restored ==
               IF afterNine(now)
               THEN [i \in DOMAIN menu |->
                       IF restoreFilter(menu[i], todayAt9AM(now))
                       THEN [menu[i] EXCEPT !.isAvailable = TRUE,
                                            !.updatedAt = now]
                       ELSE menu[i]]
               ELSE menu
       IN /\ menu' = restored
          /\ resp' = Response("menuGet", 200, "", now, restored)
          /\ lastMenuRead' =
                [at |-> now, items |-> restored,
                 again |-> /\ lastMenuRead # <<>>
                           /\ sameDay(lastMenuRead.at, now)
                           /\ afterNine(lastMenuRead.at)]

----------------------------------------------------------------------------
(* POST /api/ratings *)

RATING_MIN == 100
RATING_MAX == 500

\* the body's rating after Number(): absent, NaN, or a number in hundredths
RatingValue(given, nan, num) == [given |-> given, nan |-> nan, num |-> num]

NoRating == RatingValue(FALSE, FALSE, 0)
NotANumber == RatingValue(TRUE, TRUE, 0)

RatingValues ==
    {NoRating, NotANumber} \cup
    {RatingValue(TRUE, FALSE, n) : n \in {0, 100, 450, 500, 600}}

Row(user, item, rating) == [user |-> user, menuItem |-> item, rating |-> rating]

\* the checks of the body's rating: "" lets it through
ratingRefusal(v) ==
    IF ~v.given THEN "menuItemId and rating are required"
    ELSE IF v.nan \/ v.num < RATING_MIN \/ v.num > RATING_MAX
    THEN "Rating must be between 1 and 5"
    ELSE ""

\* Order.exists({user, "items.itemId"}): an order of any status counts
hasOrderedAndKept(userId, item) ==
    \E id \in DOMAIN orders :
        /\ orders[id].user = userId /\ HasItem(orders[id], item)
        /\ orders[id].status \notin {"rejected", "cancelled"}

hasOrdered(userId, item) ==
    \E id \in DOMAIN orders :
        orders[id].user = userId /\ HasItem(orders[id], item)

matching(rows, user, item) ==
    {r \in BagToSet(rows) : r.user = user /\ r.menuItem = item}

RECURSIVE SumRatings(_, _)
SumRatings(S, rows) ==
    IF S = {} THEN 0
    ELSE LET r == CHOOSE x \in S : TRUE
         IN r.rating * CopiesIn(r, rows) + SumRatings(S \ {r}, rows)

RECURSIVE CountRows(_, _)
CountRows(S, rows) ==
    IF S = {} THEN 0
    ELSE LET r == CHOOSE x \in S : TRUE
         IN CopiesIn(r, rows) + CountRows(S \ {r}, rows)

\* Number(avg.toFixed(2)) of sum / n, in hundredths
toFixed2(sum, n) == (2 * sum + n) \div (2 * n)

\* the $match / $group aggregate of an item's rows, as the code reads it
aggregate(rows, item) ==
    LET S == {r \in BagToSet(rows) : r.menuItem = item}
        n == CountRows(S, rows)
    IN IF n = 0 THEN NoAggregate
       ELSE [rating |-> toFixed2(SumRatings(S, rows), n), ratingCount |-> n]

\* MenuItem.findByIdAndUpdate(menuItemId, {rating, ratingCount}); Mongoose
\* stamps updatedAt
writeAverages(item, agg) ==
    IF item \in DOMAIN menu
    THEN [menu EXCEPT ![item].rating = agg.rating,
                      ![item].ratingCount = agg.ratingCount,
                      ![item].updatedAt = now]
    ELSE menu

\* updateMenuItemAverages run without another request in between
updateMenuItemAverages(item) ==
    /\ UNCHANGED <<cafeCarts, activeCafeSlug>>
    /\ UNCHANGED <<users, authReq, cached, attempts, jobs, connReq>>
    /\ item \in DOMAIN menu
    /\ menu' = writeAverages(item, aggregate(ratings, item))
    /\ lastMenuRead' = <<>>
    /\ resp' = Response("rating", 200, "", 0, aggregate(ratings, item))
    /\ UNCHANGED <<now, orders, nextOrderId, notifications, sinkUp, cancelReq,
                   listReq, menuReq, markedAt, ratings, rateReq>>

\* verifyToken, the role check, the body's checks, MenuItem.findById and
\* Order.exists
RateStart(s, tok, item, v) ==
    /\ UNCHANGED <<cafeCarts, activeCafeSlug>>
    /\ UNCHANGED <<users, authReq, cached, attempts, jobs, connReq>>
    /\ rateReq[s].pc = "idle"
    /\ UNCHANGED <<now, orders, nextOrderId, menu, notifications, sinkUp,
                   cancelReq, listReq, menuReq, lastMenuRead, markedAt, ratings>>
    /\ LET error ==
               IF authError(tok) # "" THEN [error |-> authError(tok), status |-> 401]
               ELSE IF tok.role # "user"
               THEN [error |-> "Only users can rate items", status |-> 403]
               ELSE IF ratingRefusal(v) # ""
               THEN [error |-> ratingRefusal(v), status |-> 400]
               ELSE IF item \notin DOMAIN menu
               THEN [error |-> "Menu item not found", status |-> 404]
               ELSE IF ~hasOrdered(tok.userId, item)
               THEN [error |-> "You can only rate items you have ordered",
                     status |-> 403]
               ELSE [error |-> "", status |-> 200]
       IN IF error.error # ""
          THEN /\ resp' = Fail("rating", error.status, error.error)
               /\ UNCHANGED rateReq
          ELSE /\ rateReq' = [t \in RateSlots |->
                     IF t = s
                     THEN [pc |-> "upsert", user |-> tok.userId,
                           menuItem |-> item, numericRating |-> v.num,
                           agg |-> NoAggregate,
                           alone |-> \A o \in RateSlots \ {s} :
                                        rateReq[o].pc = "idle"]
                     ELSE IF rateReq[t].pc = "idle" THEN rateReq[t]
                     ELSE [rateReq[t] EXCEPT !.alone = FALSE]]
               /\ UNCHANGED resp

\* the unique index on (user, menuItem): whether it admits another row
noUniqueIndex(rows, user, item) == TRUE

uniqueIndexAdmits(rows, user, item) == matching(rows, user, item) = {}

\* the update half of the upsert: one matching row takes the new value
updateRow(rows, user, item, value) ==
    LET r == CHOOSE x \in matching(rows, user, item) : TRUE
    IN (rows (-) SetToBag({r})) (+) SetToBag({Row(user, item, value)})

\* Rating.findOneAndUpdate with upsert: the query; a matching row is updated
\* at once, and with none the server goes on to insert
RateUpsert(s) ==
    /\ UNCHANGED <<cafeCarts, activeCafeSlug>>
    /\ UNCHANGED <<users, authReq, cached, attempts, jobs, connReq>>
    /\ rateReq[s].pc = "upsert"
    /\ UNCHANGED <<now, orders, nextOrderId, menu, notifications, sinkUp,
                   cancelReq, listReq, menuReq, lastMenuRead, markedAt, resp>>
    /\ LET r == rateReq[s]
       IN IF matching(ratings, r.user, r.menuItem) # {}
          THEN /\ ratings' = updateRow(ratings, r.user, r.menuItem,
                                       r.numericRating)
               /\ rateReq' = [rateReq EXCEPT ![s].pc = "aggregate"]
          ELSE /\ rateReq' = [rateReq EXCEPT ![s].pc = "insert"]
               /\ UNCHANGED ratings

\* the insert half of the upsert; when the unique index refuses it the
\* server retries the upsert as an update or reports the duplicate key,
\* which the handler answers with 500
RateInsert(s) ==
    /\ UNCHANGED <<cafeCarts, activeCafeSlug>>
    /\ UNCHANGED <<users, authReq, cached, attempts, jobs, connReq>>
    /\ rateReq[s].pc = "insert"
    /\ UNCHANGED <<now, orders, nextOrderId, menu, notifications, sinkUp,
                   cancelReq, listReq, menuReq, lastMenuRead, markedAt>>
    /\ LET r == rateReq[s]
       IN IF uniqueIndexAdmits(ratings, r.user, r.menuItem)
          THEN /\ ratings' = ratings (+) SetToBag({Row(r.user, r.menuItem,
                                                       r.numericRating)})
               /\ rateReq' = [rateReq EXCEPT ![s].pc = "aggregate"]
               /\ UNCHANGED resp
          ELSE \/ /\ ratings' = updateRow(ratings, r.user, r.menuItem,
                                          r.numericRating)
                  /\ rateReq' = [rateReq EXCEPT ![s].pc = "aggregate"]
                  /\ UNCHANGED resp
               \/ /\ rateReq' = [rateReq EXCEPT ![s] = IdleRate]
                  /\ resp' = Fail("rating", 500, "Failed to save rating")
                  /\ UNCHANGED ratings

\* updateMenuItemAverages: Rating.aggregate
RateAggregate(s) ==
    /\ UNCHANGED <<cafeCarts, activeCafeSlug>>
    /\ UNCHANGED <<users, authReq, cached, attempts, jobs, connReq>>
    /\ rateReq[s].pc = "aggregate"
    /\ rateReq' = [rateReq EXCEPT
          ![s].pc = "write",
          ![s].agg = aggregate(ratings, rateReq[s].menuItem)]
    /\ UNCHANGED <<now, orders, nextOrderId, menu, notifications, sinkUp,
                   cancelReq, listReq, menuReq, lastMenuRead, markedAt, resp,
                   ratings>>

\* updateMenuItemAverages: MenuItem.findByIdAndUpdate, then the response
RateWrite(s) ==
    /\ UNCHANGED <<cafeCarts, activeCafeSlug>>
    /\ UNCHANGED <<users, authReq, cached, attempts, jobs, connReq>>
    /\ rateReq[s].pc = "write"
    /\ menu' = writeAverages(rateReq[s].menuItem, rateReq[s].agg)
    /\ lastMenuRead' = <<>>
    /\ rateReq' = [rateReq EXCEPT ![s] = IdleRate]
    /\ resp' = Response("rating", 200, "", 0, rateReq[s].agg)
    /\ UNCHANGED <<now, orders, nextOrderId, notifications, sinkUp, cancelReq,
                   listReq, menuReq, markedAt, ratings>>

----------------------------------------------------------------------------
(* PATCH /api/menu/[id] with a body of rating and ratingCount only *)

\* no isAvailable in the body: the update is the handler's only write
MenuPatchRating(tok, item, rating, ratingCount) ==
    /\ UNCHANGED <<cafeCarts, activeCafeSlug>>
    /\ UNCHANGED <<users, authReq, cached, attempts, jobs, connReq>>
    /\ UNCHANGED <<now, orders, nextOrderId, notifications, sinkUp, cancelReq,
                   listReq, menuReq, markedAt, ratings, rateReq>>
    /\ LET a == verifyAdmin(tok)
       IN IF a.error # ""
          THEN /\ resp' = Fail("menuPatch", a.status, a.error)
               /\ UNCHANGED <<menu, lastMenuRead>>
          ELSE IF item \notin DOMAIN menu
          THEN /\ resp' = Fail("menuPatch", 404, "Menu item not found")
               /\ UNCHANGED <<menu, lastMenuRead>>
          ELSE /\ menu' = [menu EXCEPT ![item].rating = rating,
                                       ![item].ratingCount = ratingCount,
                                       ![item].updatedAt = now]
               /\ lastMenuRead' = <<>>
               /\ resp' = Ok("menuPatch")

\* a body of price only
MenuPatchPrice(tok, item, price) ==
    /\ UNCHANGED <<cafeCarts, activeCafeSlug>>
    /\ UNCHANGED <<users, authReq, cached, attempts, jobs, connReq>>
    /\ UNCHANGED <<now, orders, nextOrderId, notifications, sinkUp, cancelReq,
                   listReq, menuReq, markedAt, ratings, rateReq>>
    /\ LET a == verifyAdmin(tok)
       IN IF a.error # ""
          THEN /\ resp' = Fail("menuPatch", a.status, a.error)
               /\ UNCHANGED <<menu, lastMenuRead>>
          ELSE IF price < 0
          THEN /\ resp' = Fail("menuPatch", 400,
                                "Price must be a valid positive number")
               /\ UNCHANGED <<menu, lastMenuRead>>
          ELSE IF item \notin DOMAIN menu
          THEN /\ resp' = Fail("menuPatch", 404, "Menu item not found")
               /\ UNCHANGED <<menu, lastMenuRead>>
          ELSE /\ menu' = [menu EXCEPT ![item].price = price,
                                       ![item].updatedAt = now]
               /\ lastMenuRead' = <<>>
               /\ resp' = Ok("menuPatch")

----------------------------------------------------------------------------
(* DELETE /api/menu/[id] *)

DeleteMenuItem(tok, item) ==
    /\ UNCHANGED <<cafeCarts, activeCafeSlug>>
    /\ UNCHANGED <<users, authReq, cached, attempts, jobs, connReq>>
    /\ UNCHANGED <<now, orders, nextOrderId, notifications, sinkUp, cancelReq,
                   listReq, menuReq, markedAt, ratings, rateReq>>
    /\ LET a == verifyAdmin(tok)
       IN IF a.error # ""
          THEN /\ resp' = Fail("deleteMenuItem", a.status, a.error)
               /\ UNCHANGED <<menu, lastMenuRead>>
          ELSE IF item \notin DOMAIN menu
          THEN /\ resp' = Fail("deleteMenuItem", 404, "Menu item not found")
               /\ UNCHANGED <<menu, lastMenuRead>>
          ELSE /\ menu' = [i \in DOMAIN menu \ {item} |-> menu[i]]
               /\ lastMenuRead' = <<>>
               /\ resp' = Ok("deleteMenuItem")

----------------------------------------------------------------------------
(* POST /api/menu *)

\* a request body: name and image ("" when missing), price (0 when missing)
\* and the rating carried (0 when none)
MenuItemBody(name, price, image, rating) ==
    [name |-> name, price |-> price, image |-> image, rating |-> rating]

\* id is the _id the store gives the new document
MenuPost(tok, body, id) ==
    /\ UNCHANGED <<cafeCarts, activeCafeSlug>>
    /\ UNCHANGED <<users, authReq, cached, attempts, jobs, connReq>>
    /\ id \notin DOMAIN menu
    /\ UNCHANGED <<now, orders, nextOrderId, notifications, sinkUp, cancelReq,
                   listReq, menuReq, ratings, rateReq>>
    /\ IF authError(tok) # ""
       THEN /\ resp' = Fail("menuPost", 401,
                             IF hasBearer(tok) THEN authError(tok)
                             ELSE "Unauthorized - no token")
            /\ UNCHANGED <<menu, lastMenuRead, markedAt>>
       ELSE IF tok.role # "admin"
       THEN /\ resp' = Fail("menuPost", 403, "Unauthorized - admin access required")
            /\ UNCHANGED <<menu, lastMenuRead, markedAt>>
       ELSE IF body.name = "" \/ body.price = 0 \/ body.image = ""
       THEN /\ resp' = Fail("menuPost", 400, "Name, price, and image are required")
            /\ UNCHANGED <<menu, lastMenuRead, markedAt>>
       ELSE IF body.price < 0 \/ body.rating < 0 \/ body.rating > RATING_MAX
       THEN /\ resp' = Fail("menuPost", 500, "Failed to add menu item")
            /\ UNCHANGED <<menu, lastMenuRead, markedAt>>
       ELSE /\ menu' = (id :> [isAvailable |-> TRUE, updatedAt |-> now,
                                rating |-> body.rating, ratingCount |-> 0,
                                price |-> body.price]) @@ menu
            /\ markedAt' = (id :> now) @@ markedAt
            /\ lastMenuRead' = <<>>
            /\ resp' = Ok("menuPost")

----------------------------------------------------------------------------
(* /api/notifications *)

\* GET: the caller's notifications
NotificationsGet(tok) ==
    /\ UNCHANGED <<cafeCarts, activeCafeSlug>>
    /\ UNCHANGED <<users, authReq, cached, attempts, jobs, connReq>>
    /\ UNCHANGED <<now, orders, nextOrderId, menu, notifications, sinkUp,
                   cancelReq, listReq, menuReq, lastMenuRead, markedAt,
                   ratings, rateReq>>
    /\ IF authError(tok) # ""
       THEN resp' = Fail("notifications", 401, authError(tok))
       ELSE resp' = Response("notifications", 200, "", 0,
                             {n \in BagToSet(notifications) : n.user = tok.userId})

\* a message that is missing or blank
NoMessage == Message("", "")

\* a request body of POST: "", 0 and NoMessage stand for a field that is
\* missing or blank
NotificationBody(userId, orderId, message, type) ==
    [userId |-> userId, orderId |-> orderId, message |-> message, type |-> type]

\* the text of the 400 for the first field that is missing or blank
notificationBodyError(body) ==
    IF body.userId = "" THEN "userId is required and must be a non-empty string"
    ELSE IF body.orderId = 0
    THEN "orderId is required and must be a non-empty string"
    ELSE IF body.message = NoMessage
    THEN "message is required and must be a non-empty string"
    ELSE IF body.type = "" THEN "type is required and must be a non-empty string"
    ELSE ""

\* the category enum of NotificationSchema
NotificationTypes ==
    {"order_placed", "order_accepted", "order_rejected", "order_completed",
     "order_cancelled"}

\* POST: the header is read and a failing jwt.verify is passed over; the
\* decoded payload is never used
NotificationPost(tok, body) ==
    /\ UNCHANGED <<cafeCarts, activeCafeSlug>>
    /\ UNCHANGED <<users, authReq, cached, attempts, jobs, connReq>>
    /\ UNCHANGED <<now, orders, nextOrderId, menu, sinkUp, cancelReq, listReq,
                   menuReq, lastMenuRead, markedAt, ratings, rateReq>>
    /\ IF notificationBodyError(body) # ""
       THEN /\ resp' = Fail("notificationPost", 400, notificationBodyError(body))
            /\ UNCHANGED notifications
       ELSE IF body.type \notin NotificationTypes \/ ~sinkUp
       THEN /\ resp' = Fail("notificationPost", 500, "Failed to create notification")
            /\ UNCHANGED notifications
       ELSE /\ notifications' = notifications (+) SetToBag(
                  {Notification(body.userId, body.orderId, body.message, body.type)})
            /\ resp' = Ok("notificationPost")

\* a notification no document matches
NoNotification == Notification("none", 0, Message("none", ""), "order_placed")

\* the stored notifications with the read flag of one copy of n flipped
toggleOneRead(ns, n) ==
    (ns (-) SetToBag({n})) (+) SetToBag({[n EXCEPT !.read = ~n.read]})

\* the stored notifications with one copy of n marked read
markOneRead(ns, n) ==
    (ns (-) SetToBag({n})) (+) SetToBag({[n EXCEPT !.read = TRUE]})

\* PATCH /api/notifications/[id], n being the document the id names
MarkRead(tok, n) ==
    /\ UNCHANGED <<cafeCarts, activeCafeSlug>>
    /\ UNCHANGED <<users, authReq, cached, attempts, jobs, connReq>>
    /\ UNCHANGED <<now, orders, nextOrderId, menu, sinkUp, cancelReq, listReq,
                   menuReq, lastMenuRead, markedAt, ratings, rateReq>>
    /\ IF authError(tok) # ""
       THEN /\ resp' = Fail("markRead", 401, authError(tok))
            /\ UNCHANGED notifications
       ELSE IF ~BagIn(n, notifications)
       THEN /\ resp' = Fail("markRead", 404, "Notification not found")
            /\ UNCHANGED notifications
       ELSE IF n.user # tok.userId
       THEN /\ resp' = Fail("markRead", 403, "Unauthorized")
            /\ UNCHANGED notifications
       ELSE IF ~sinkUp
       THEN /\ resp' = Fail("markRead", 500, "Failed to update notification")
            /\ UNCHANGED notifications
       ELSE /\ notifications' = markOneRead(notifications, n)
            /\ resp' = Response("markRead", 200, "", 0, [n EXCEPT !.read = TRUE])

----------------------------------------------------------------------------
(* POST /api/auth/register and POST /api/auth/update-credentials *)

\* the _ids the store gives to users registered after the start
NewUserIds == {"u3", "u4"}

\* String.prototype.trim and the schema's trim on the usernames tried
trim(name) == IF name = " cat" THEN "cat" ELSE name

\* the unique index on username: a write that leaves document self with
\* name is admitted when no other document has it
noUsernameIndex(us, self, name) == TRUE

usernameIndexAdmits(us, self, name) ==
    \A id \in DOMAIN us \ {self} : us[id].username # name

\* the role register gives the new user
registeredRoleAdmin == "admin"

registeredRole == "user"

\* register: the required fields and User.findOne({username}), up to the
\* await of bcrypt.hash; "" is a missing username
RegisterCheck(s, username, othersGiven) ==
    /\ authReq[s].pc = "idle"
    /\ UNCHANGED <<cafeCarts, activeCafeSlug>>
    /\ UNCHANGED <<now, orders, nextOrderId, menu, notifications, sinkUp,
                   cancelReq, listReq, menuReq, lastMenuRead, markedAt,
                   ratings, rateReq, users, cached, attempts, jobs, connReq>>
    /\ IF username = "" \/ ~othersGiven
       THEN /\ resp' = Fail("register", 400, "All fields are required")
            /\ UNCHANGED authReq
       ELSE IF \E id \in DOMAIN users : users[id].username = username
       THEN /\ resp' = Fail("register", 400, "Username already exists")
            /\ UNCHANGED authReq
       ELSE /\ authReq' = [authReq EXCEPT ![s] =
                  [pc |-> "save", op |-> "register", user |-> "none",
                   username |-> username]]
            /\ UNCHANGED resp

\* register: user.save(), id being the _id of the new document
RegisterSave(s, id) ==
    /\ authReq[s].pc = "save"
    /\ authReq[s].op = "register"
    /\ id \notin DOMAIN users
    /\ authReq' = [authReq EXCEPT ![s] = IdleAuth]
    /\ UNCHANGED <<cafeCarts, activeCafeSlug>>
    /\ UNCHANGED <<now, orders, nextOrderId, menu, notifications, sinkUp,
                   cancelReq, listReq, menuReq, lastMenuRead, markedAt,
                   ratings, rateReq, cached, attempts, jobs, connReq>>
    /\ LET name == trim(authReq[s].username)
       IN IF ~usernameIndexAdmits(users, id, name)
          THEN /\ resp' = Fail("register", 400, "Username already exists")
               /\ UNCHANGED users
          ELSE /\ users' = (id :> [username |-> name, role |-> registeredRole])
                             @@ users
               /\ resp' = Ok("register")

\* update-credentials: the checks and the two reads, up to the await of
\* user.save(); "" is a body without username
RenameCheck(s, tok, username, hasPassword) ==
    /\ authReq[s].pc = "idle"
    /\ UNCHANGED <<cafeCarts, activeCafeSlug>>
    /\ UNCHANGED <<now, orders, nextOrderId, menu, notifications, sinkUp,
                   cancelReq, listReq, menuReq, lastMenuRead, markedAt,
                   ratings, rateReq, users, cached, attempts, jobs, connReq>>
    /\ IF authError(tok) # ""
       THEN /\ resp' = Fail("updateCredentials", 401, authError(tok))
            /\ UNCHANGED authReq
       ELSE IF username = "" /\ ~hasPassword
       THEN /\ resp' = Fail("updateCredentials", 400,
                  "At least one field (username or password) must be provided")
            /\ UNCHANGED authReq
       ELSE IF tok.userId \notin DOMAIN users
       THEN /\ resp' = Fail("updateCredentials", 404, "User not found")
            /\ UNCHANGED authReq
       ELSE IF /\ username # ""
               /\ \E id \in DOMAIN users \ {tok.userId} :
                     users[id].username = trim(username)
       THEN /\ resp' = Fail("updateCredentials", 400, "Username already taken")
            /\ UNCHANGED authReq
       ELSE /\ authReq' = [authReq EXCEPT ![s] =
                  [pc |-> "save", op |-> "updateCredentials",
                   user |-> tok.userId, username |-> trim(username)]]
            /\ UNCHANGED resp

\* update-credentials: user.save()
RenameSave(s) ==
    /\ authReq[s].pc = "save"
    /\ authReq[s].op = "updateCredentials"
    /\ authReq' = [authReq EXCEPT ![s] = IdleAuth]
    /\ UNCHANGED <<cafeCarts, activeCafeSlug>>
    /\ UNCHANGED <<now, orders, nextOrderId, menu, notifications, sinkUp,
                   cancelReq, listReq, menuReq, lastMenuRead, markedAt,
                   ratings, rateReq, cached, attempts, jobs, connReq>>
    /\ LET me == authReq[s].user
           name == authReq[s].username
       IN IF name = ""
          THEN /\ resp' = Ok("updateCredentials")
               /\ UNCHANGED users
          ELSE IF ~usernameIndexAdmits(users, me, name)
          THEN /\ resp' = Fail("updateCredentials", 400, "Username already taken")
               /\ UNCHANGED users
          ELSE /\ users' = [users EXCEPT ![me].username = name]
               /\ resp' = Ok("updateCredentials")

\* a register body: its username, whether password, email and phone are
\* given, and a role field ("": none), which the handler does not read
RegisterBody(username, othersGiven, role) ==
    [username |-> username, othersGiven |-> othersGiven, role |-> role]

PostRegister(s, body) == RegisterCheck(s, body.username, body.othersGiven)

----------------------------------------------------------------------------
(* POST /api/auth/login *)

\* the token jwt.sign makes for a user
signedFor(id) == Credential("Bearer", TRUE, FALSE, id, users[id].role)

\* "" is a missing username; passwordOk: whether bcrypt.compare accepts
Login(username, passwordOk) ==
    /\ UNCHANGED <<cafeCarts, activeCafeSlug>>
    /\ UNCHANGED <<now, orders, nextOrderId, menu, notifications, sinkUp,
                   cancelReq, listReq, menuReq, lastMenuRead, markedAt,
                   ratings, rateReq, users, authReq, cached, attempts, jobs,
                   connReq>>
    /\ IF username = ""
       THEN resp' = Fail("login", 400,
                "Username is required and must be a non-empty string")
       ELSE IF \A id \in DOMAIN users : users[id].username # username
       THEN resp' = Fail("login", 401, "Invalid username or password")
       ELSE IF ~passwordOk
       THEN resp' = Fail("login", 401, "Invalid username or password")
       ELSE LET id == CHOOSE i \in DOMAIN users :
                          users[i].username = username
            IN resp' = Response("login", 200, "", 0, signedFor(id))

\* the last response is a login's, with its token
loggedIn == resp.op = "login" /\ resp.code = 200

----------------------------------------------------------------------------
(* The specifications *)

\* room left in the bounded Notification collection
Room(max) == BagCardinality(notifications) < max

MarkUnavailable == [valid |-> TRUE, has |-> TRUE, val |-> "false"]
MarkUnavailableZero == [valid |-> TRUE, has |-> TRUE, val |-> "0"]
AddBack == [valid |-> TRUE, has |-> TRUE, val |-> "true"]
EditOnly == [valid |-> TRUE, has |-> FALSE, val |-> "undefined"]

\* Spec: the order lifecycle, one request at a time; the clock may advance
\* at any moment, also while a request is in flight
Next ==
    \/ now < MaxTime /\ Tick
    \/ /\ AllIdle
       /\ nextOrderId <= MaxOrders
       /\ Room(MaxNotifs)
       /\ CreateOrder(tokU1, CartBoth, TRUE)
    \/ /\ AllIdle
       /\ Room(MaxNotifs)
       /\ \E id \in 1..MaxOrders, st \in Statuses :
             AdminTransition(tokAdmin, id, st)
    \/ /\ AllIdle
       /\ \E tok \in {tokU1, tokU2}, id \in 1..MaxOrders : CancelCheck(tok, id)
    \/ Room(MaxNotifs) /\ CancelSave
    \/ /\ AllIdle
       /\ \E tok \in {tokU1, tokAdmin} : ListSweep(tok)
    \/ ListRead
    \/ /\ AllIdle
       /\ \E id \in 1..MaxOrders : DeleteOrder(tokAdmin, id)

Spec == Init /\ [][Next]_vars

\* SpecEdit: orders and every kind of menu update, one request at a time
NextEdit ==
    \/ /\ AllIdle
       /\ nextOrderId <= MaxEditOrders
       /\ Room(MaxEditNotifs)
       /\ \E cart \in {CartBoth, CartOne} : CreateOrder(tokU1, cart, TRUE)
    \/ /\ AllIdle
       /\ Room(MaxEditNotifs)
       /\ \E id \in 1..MaxEditOrders, st \in {"accepted", "completed"} :
             AdminTransition(tokAdmin, id, st)
    \/ /\ AllIdle
       /\ \E body \in {MarkUnavailable, MarkUnavailableZero, AddBack,
                       EditOnly} :
             MenuPatchStart(1, tokAdmin, "i1", body)
    \/ MenuPatchUpdate(1)
    \/ MenuPatchFind(1)
    \/ Room(MaxEditNotifs) /\ MenuPatchCancel(1)
    \/ AllIdle /\ MenuPatchPrice(tokAdmin, "i1", 12)
    \/ AllIdle /\ MenuPatchRating(tokAdmin, "i1", RATING_MAX, 1)

SpecEdit == Init /\ [][NextEdit]_vars

\* SpecLive: orders, the clock and listings that keep coming. The clock
\* of the model stops at MaxLiveTime, so orders are created only while the
\* clock can still carry them past the sweep's two minutes. The
\* administrator may accept an order or set it back to pending at any time.
NextLive ==
    \/ now < MaxLiveTime /\ Tick
    \/ /\ nextOrderId <= MaxLiveOrders
       /\ now + AUTO_CANCEL_MINUTES * MinuteMs < MaxLiveTime
       /\ Room(MaxLiveNotifs)
       /\ \E tok \in {tokU1, tokU2} : CreateOrder(tok, CartOne, TRUE)
    \/ /\ Room(MaxLiveNotifs)
       /\ \E id \in 1..MaxLiveOrders, st \in {"pending", "accepted"} :
             AdminTransition(tokAdmin, id, st)
    \/ \E tok \in {tokU1, BadToken} : ListSweep(tok)
    \/ ListRead

SpecLive ==
    /\ Init
    /\ [][NextLive]_vars
    /\ WF_vars(now < MaxLiveTime /\ Tick)
    /\ WF_vars(ListSweep(tokU1))
    /\ WF_vars(ListRead)

\* SpecAvail: orders and the menu's availability switch, one request at a
\* time, with a notification store that may fail; the clock stands still
NextAvail ==
    \/ SinkToggle
    \/ /\ AllIdle
       /\ nextOrderId <= MaxOrders
       /\ Room(MaxAvailNotifs)
       /\ \E cart \in {CartBoth, CartOne} : CreateOrder(tokU1, cart, TRUE)
    \/ /\ AllIdle
       /\ Room(MaxAvailNotifs)
       /\ \E id \in 1..MaxOrders, st \in {"accepted", "completed"} :
             AdminTransition(tokAdmin, id, st)
    \/ /\ AllIdle
       /\ \E id \in 1..MaxOrders : CancelCheck(tokU1, id)
    \/ Room(MaxAvailNotifs) /\ CancelSave
    \/ /\ AllIdle
       /\ \E body \in {MarkUnavailable, AddBack, EditOnly} :
             MenuPatchStart(1, tokAdmin, "i1", body)
    \/ MenuPatchUpdate(1)
    \/ MenuPatchFind(1)
    \/ Room(MaxAvailNotifs) /\ MenuPatchCancel(1)

SpecAvail == Init /\ [][NextAvail]_vars

\* SpecConcList: the order requests' steps interleaved freely, under the clock
NextConcList ==
    \/ now < MaxConcTime /\ Tick
    \/ /\ nextOrderId <= MaxConcOrders
       /\ Room(MaxNotifs)
       /\ CreateOrder(tokU1, CartBoth, TRUE)
    \/ /\ Room(MaxNotifs)
       /\ \E id \in 1..MaxConcOrders, st \in Statuses :
             AdminTransition(tokAdmin, id, st)
    \/ \E id \in 1..MaxConcOrders : CancelCheck(tokU1, id)
    \/ Room(MaxNotifs) /\ CancelSave
    \/ ListSweep(tokU1)
    \/ ListRead
    \/ \E id \in 1..MaxConcOrders : DeleteOrder(tokAdmin, id)

SpecConcList == Init /\ [][NextConcList]_vars

\* SpecConcMenu: two menu updates, the administrator's transitions and the
\* customer's cancel interleaved freely; the clock stands still
NextConcMenu ==
    \/ /\ nextOrderId <= MaxConcOrders
       /\ Room(MaxNotifs)
       /\ CreateOrder(tokU1, CartBoth, TRUE)
    \/ /\ Room(MaxNotifs)
       /\ \E id \in 1..MaxConcOrders, st \in Statuses :
             AdminTransition(tokAdmin, id, st)
    \/ \E id \in 1..MaxConcOrders : CancelCheck(tokU1, id)
    \/ Room(MaxNotifs) /\ CancelSave
    \/ \E id \in 1..MaxConcOrders : DeleteOrder(tokAdmin, id)
    \/ \E s \in MenuSlots, body \in {MarkUnavailable, AddBack} :
          MenuPatchStart(s, tokAdmin, "i1", body)
    \/ \E s \in MenuSlots : MenuPatchUpdate(s)
    \/ \E s \in MenuSlots : MenuPatchFind(s)
    \/ \E s \in MenuSlots : Room(MaxNotifs) /\ MenuPatchCancel(s)

SpecConcMenu == Init /\ [][NextConcMenu]_vars

\* SpecMenu: the menu through the days, one request at a time; requests
\* arrive at 08:00, 09:00 and 10:00 of each day, the first at 08:00
MenuStart == 8 * HourMs

MenuEnd == MaxDays * DayMs + 10 * HourMs

InitMenu == InitAt(MenuStart)

\* the clock, from one of the day's three instants to the next
TickMenu ==
    /\ UNCHANGED <<ratings, rateReq>>
    /\ UNCHANGED <<cafeCarts, activeCafeSlug>>
    /\ UNCHANGED <<users, authReq, cached, attempts, jobs, connReq>>
    /\ now' = IF getHours(now) = 10 THEN now + 22 * HourMs ELSE now + HourMs
    /\ UNCHANGED <<orders, nextOrderId, menu, notifications, sinkUp,
                   cancelReq, listReq, menuReq, lastMenuRead, markedAt, resp>>

NextMenu ==
    \/ now < MenuEnd /\ TickMenu
    \/ AllIdle /\ MenuGet
    \/ /\ AllIdle
       /\ \E item \in ItemIds, body \in {MarkUnavailable, AddBack, EditOnly} :
             MenuPatchStart(1, tokAdmin, item, body)
    \/ MenuPatchUpdate(1)
    \/ MenuPatchFind(1)
    \/ /\ AllIdle
       /\ \E item \in ItemIds : updateMenuItemAverages(item)

SpecMenu == InitMenu /\ [][NextMenu]_vars

\* SpecRestore: orders, the availability switch and the menu read with its
\* 09:00 rule, one request at a time, at the instants of SpecMenu
NextRestore ==
    \/ now < MenuEnd /\ TickMenu
    \/ /\ AllIdle
       /\ nextOrderId <= MaxRestoreOrders
       /\ Room(MaxRestoreNotifs)
       /\ CreateOrder(tokU1, CartBoth, TRUE)
    \/ AllIdle /\ MenuGet
    \/ /\ AllIdle
       /\ \E body \in {MarkUnavailable, AddBack} :
             MenuPatchStart(1, tokAdmin, "i1", body)
    \/ MenuPatchUpdate(1)
    \/ MenuPatchFind(1)
    \/ Room(MaxRestoreNotifs) /\ MenuPatchCancel(1)

SpecRestore == InitMenu /\ [][NextRestore]_vars

\* SpecRoles: registrations, renames and logins, and after a login an
\* administrator-only operation tried with the token it issued
NextRoles ==
    \/ \E s \in AuthSlots,
          body \in {RegisterBody("cat", TRUE, "admin"),
                    RegisterBody("admin", TRUE, ""),
                    RegisterBody("", TRUE, "admin")} :
          PostRegister(s, body)
    \/ \E s \in AuthSlots, id \in NewUserIds : RegisterSave(s, id)
    \/ /\ loggedIn
       /\ \E s \in AuthSlots, username \in {"dan", "admin"},
             hasPassword \in BOOLEAN :
             RenameCheck(s, resp.body, username, hasPassword)
    \/ \E s \in AuthSlots : RenameSave(s)
    \/ \E username \in {"ann", "cat", "dan", "admin", ""},
          passwordOk \in BOOLEAN : Login(username, passwordOk)
    \/ loggedIn /\ MenuPatchPrice(resp.body, "i1", 12)

SpecRoles == Init /\ [][NextRoles]_vars

\* SpecRate: orders, ratings and the administrator's edits of an item's
\* rating, one request at a time; the clock stands still
NextRate ==
    \/ /\ AllIdle
       /\ nextOrderId <= MaxOrders
       /\ Room(MaxNotifs)
       /\ \E tok \in {tokU1, tokU2} : CreateOrder(tok, CartOne, TRUE)
    \/ /\ AllIdle
       /\ Room(MaxNotifs)
       /\ \E id \in 1..MaxOrders : AdminTransition(tokAdmin, id, "rejected")
    \/ /\ AllIdle
       /\ \E id \in 1..MaxOrders : DeleteOrder(tokAdmin, id)
    \/ /\ AllIdle
       /\ \E tok \in {tokU1, tokU2},
             item \in {"i1", "i2", NoItem}, v \in RatingValues :
             RateStart(1, tok, item, v)
    \/ RateUpsert(1)
    \/ RateInsert(1)
    \/ RateAggregate(1)
    \/ RateWrite(1)
    \/ AllIdle /\ MenuPatchRating(tokAdmin, "i2", RATING_MAX, 1)

SpecRate == Init /\ [][NextRate]_vars

\* SpecConcRate: the steps of two rating requests interleaved freely
NextConcRate ==
    \/ /\ nextOrderId <= MaxRateOrders
       /\ Room(MaxNotifs)
       /\ \E tok \in {tokU1, tokU2} : CreateOrder(tok, CartOne, TRUE)
    \/ \E s \in RateSlots, tok \in {tokU1, tokU2},
          v \in {RatingValue(TRUE, FALSE, n) : n \in {RATING_MIN, RATING_MAX}} :
          RateStart(s, tok, "i2", v)
    \/ \E s \in RateSlots : RateUpsert(s)
    \/ \E s \in RateSlots : RateInsert(s)
    \/ \E s \in RateSlots : RateAggregate(s)
    \/ \E s \in RateSlots : RateWrite(s)

SpecConcRate == Init /\ [][NextConcRate]_vars

\* SpecFrame: every operation that follows an order's creation, one request
\* at a time, under the clock
NextFrame ==
    \/ now < MaxFrameTime /\ Tick
    \/ /\ AllIdle
       /\ nextOrderId <= MaxFrameOrders
       /\ Room(MaxNotifs)
       /\ CreateOrder(tokU1, CartBoth, TRUE)
    \/ /\ AllIdle
       /\ Room(MaxNotifs)
       /\ \E id \in 1..MaxFrameOrders : AdminTransition(tokAdmin, id, "accepted")
    \/ /\ AllIdle
       /\ \E id \in 1..MaxFrameOrders : CancelCheck(tokU1, id)
    \/ Room(MaxNotifs) /\ CancelSave
    \/ AllIdle /\ ListSweep(tokU1)
    \/ ListRead
    \/ AllIdle /\ MenuPatchStart(1, tokAdmin, "i1", MarkUnavailable)
    \/ MenuPatchUpdate(1)
    \/ MenuPatchFind(1)
    \/ Room(MaxNotifs) /\ MenuPatchCancel(1)
    \/ AllIdle /\ MenuPatchPrice(tokAdmin, "i1", ListPrice("i1") + 2)
    \/ AllIdle /\ DeleteMenuItem(tokAdmin, "i1")
    \/ AllIdle /\ RateStart(1, tokU1, "i1", RatingValue(TRUE, FALSE, RATING_MAX))
    \/ RateUpsert(1)
    \/ RateInsert(1)
    \/ RateAggregate(1)
    \/ RateWrite(1)

SpecFrame == Init /\ [][NextFrame]_vars

\* SpecCreate: order creation with every kind of caller and body, over a
\* notification store that may fail
NextCreate ==
    \/ SinkToggle
    \/ /\ nextOrderId <= MaxCreateOrders
       /\ \E tok \in Tokens, body \in OrderBodies : PostOrders(tok, body)

SpecCreate == Init /\ [][NextCreate]_vars

\* the status values a PATCH /api/orders/[id] body is tried with: the five
\* of the schema, none at all and one the schema does not have
PatchStatuses == Statuses \cup {"", "shipped"}

\* SpecAdmin: the administrator's transition with every status value, on
\* orders that exist and on one that does not, over a notification store
\* that may fail
NextAdmin ==
    \/ SinkToggle
    \/ /\ nextOrderId <= MaxAdminOrders
       /\ Room(MaxAdminNotifs)
       /\ \E tok \in {tokU1, tokU2} : CreateOrder(tok, CartOne, TRUE)
    \/ \E cart \in {<<>>, CartZeroQty} : CreateOrder(tokU1, cart, TRUE)
    \/ /\ Room(MaxAdminNotifs)
       /\ \E tok \in {tokAdmin, tokU1}, id \in 1..(MaxAdminOrders + 1),
             st \in PatchStatuses :
             AdminTransition(tok, id, st)

SpecAdmin == Init /\ [][NextAdmin]_vars

\* SpecList: two customers' orders, listed by each of them and by the
\* administrator, transitioned, cancelled and deleted, one request at a time
NextList ==
    \/ /\ AllIdle
       /\ nextOrderId <= MaxListOrders
       /\ Room(MaxListNotifs)
       /\ \E tok \in {tokU1, tokU2} : CreateOrder(tok, CartOne, TRUE)
    \/ /\ AllIdle
       /\ Room(MaxListNotifs)
       /\ \E id \in 1..MaxListOrders, st \in {"accepted", "completed"} :
             AdminTransition(tokAdmin, id, st)
    \/ /\ AllIdle
       /\ \E tok \in {tokU1, tokU2}, id \in 1..MaxListOrders : CancelCheck(tok, id)
    \/ Room(MaxListNotifs) /\ CancelSave
    \/ /\ AllIdle
       /\ \E tok \in {tokU1, tokU2, tokAdmin} : ListSweep(tok)
    \/ ListRead
    \/ /\ AllIdle
       /\ \E tok \in {tokAdmin, tokU1}, id \in 1..MaxListOrders : DeleteOrder(tok, id)

SpecList == Init /\ [][NextList]_vars

\* a body of POST /api/notifications that names user u2, order 1, a text and
\* a category of the caller's choosing
ForgedBody == NotificationBody("u2", 1, Message("forged", ""), "order_accepted")

\* a body of POST /api/menu with every required field
NewItemBody == MenuItemBody("Tea", 3, "tea.png", 0)

\* the _id of a menu item created after the start
NewItem == "i3"

\* bodies of POST /api/notifications: the forged one, one without a message
\* and one with a category the schema does not have
NotificationBodies ==
    {ForgedBody,
     NotificationBody("u2", 1, NoMessage, "order_accepted"),
     NotificationBody("u2", 1, Message("forged", ""), "promo")}

\* SpecNotif: notifications recorded by orders and transitions, listed,
\* marked read by their owner and by others, and posted directly
NextNotif ==
    \/ /\ nextOrderId <= MaxNotifOrders
       /\ Room(MaxNotifNotifs)
       /\ \E tok \in {tokU1, tokU2} : CreateOrder(tok, CartOne, TRUE)
    \/ /\ Room(MaxNotifNotifs)
       /\ \E id \in 1..MaxNotifOrders : AdminTransition(tokAdmin, id, "accepted")
    \/ \E tok \in {tokU1, tokU2} : NotificationsGet(tok)
    \/ \E tok \in {tokU1, tokU2, tokAdmin},
          n \in BagToSet(notifications) \cup {NoNotification} : MarkRead(tok, n)
    \/ /\ Room(MaxNotifNotifs)
       /\ \E tok \in {NoHeader, tokU1}, body \in NotificationBodies :
             NotificationPost(tok, body)

SpecNotif == Init /\ [][NextNotif]_vars

\* SpecUsers: registrations and renames, their steps interleaved
NextUsers ==
    \/ \E s \in AuthSlots, username \in {"cat", " cat", "ann", ""},
          othersGiven \in BOOLEAN :
          RegisterCheck(s, username, othersGiven)
    \/ \E s \in AuthSlots, id \in NewUserIds : RegisterSave(s, id)
    \/ \E s \in AuthSlots, tok \in {tokU1, tokU2, NoHeader},
          username \in {"cat", "bob", ""}, hasPassword \in BOOLEAN :
          RenameCheck(s, tok, username, hasPassword)
    \/ \E s \in AuthSlots : RenameSave(s)

SpecUsers == Init /\ [][NextUsers]_vars

----------------------------------------------------------------------------
(* connectDB: the cached connection. A call runs without interruption up
   to its await; what runs next is the head of the microtask queue. An
   attempt is one mongoose.connect(...).then(...) promise, numbered from 1;
   the connection it resolves with is written as its number. *)

MaxAttempts == 3

Attempt(status, waiters) == [status |-> status, waiters |-> waiters]

Job(kind, c) == [kind |-> kind, c |-> c]

inFlight == {p \in DOMAIN attempts : attempts[p].status = "pending"}

\* a handler's call of connectDB is scheduled
ConnArrive(c) ==
    /\ UNCHANGED <<cafeCarts, activeCafeSlug>>
    /\ UNCHANGED <<now, orders, nextOrderId, menu, notifications, sinkUp,
                   cancelReq, listReq, menuReq, lastMenuRead, markedAt, resp,
                   ratings, rateReq, users, authReq>>
    /\ connReq[c].pc = "idle"
    /\ connReq' = [connReq EXCEPT ![c].pc = "called"]
    /\ jobs' = Append(jobs, Job("call", c))
    /\ UNCHANGED <<cached, attempts>>

\* the call up to its await: the cached connection if there is one, else
\* the cached promise, a new attempt's if none is cached; awaiting a settled
\* promise queues the resumption at once
connectDBToAwait(c, rest) ==
    IF cached.conn # 0
    THEN /\ connReq' = [connReq EXCEPT ![c] =
               [pc |-> "done", awaiting |-> 0, result |-> cached.conn]]
         /\ jobs' = rest
         /\ UNCHANGED <<cached, attempts>>
    ELSE LET p == IF cached.promise = 0 THEN Len(attempts) + 1
                  ELSE cached.promise
             started == IF cached.promise = 0
                        THEN Append(attempts, Attempt("pending", <<>>))
                        ELSE attempts
         IN /\ cached' = [cached EXCEPT !.promise = p]
            /\ connReq' = [connReq EXCEPT ![c] =
                  [pc |-> "awaiting", awaiting |-> p, result |-> 0]]
            /\ IF started[p].status = "pending"
               THEN /\ attempts' = [started EXCEPT
                          ![p].waiters = Append(@, c)]
                    /\ jobs' = rest
               ELSE /\ attempts' = started
                    /\ jobs' = Append(rest, Job("resume", c))

\* the call from its await on: the try's assignment of cached.conn, or the
\* catch that clears cached.promise and rethrows
connectDBFromAwait(c, rest) ==
    LET p == connReq[c].awaiting
    IN /\ jobs' = rest
       /\ UNCHANGED attempts
       /\ IF attempts[p].status = "resolved"
          THEN /\ cached' = [cached EXCEPT !.conn = p]
               /\ connReq' = [connReq EXCEPT ![c] =
                     [pc |-> "done", awaiting |-> 0, result |-> p]]
          ELSE /\ cached' = [cached EXCEPT !.promise = 0]
               /\ connReq' = [connReq EXCEPT ![c] =
                     [pc |-> "done", awaiting |-> 0, result |-> -1]]

\* the head of the microtask queue runs
ConnRun ==
    /\ UNCHANGED <<cafeCarts, activeCafeSlug>>
    /\ UNCHANGED <<now, orders, nextOrderId, menu, notifications, sinkUp,
                   cancelReq, listReq, menuReq, lastMenuRead, markedAt, resp,
                   ratings, rateReq, users, authReq>>
    /\ jobs # <<>>
    /\ IF Head(jobs).kind = "call"
       THEN connectDBToAwait(Head(jobs).c, Tail(jobs))
       ELSE connectDBFromAwait(Head(jobs).c, Tail(jobs))

\* attempt p settles: the resumptions of those awaiting it are queued in
\* the order they began to await
ConnSettle(p, ok) ==
    /\ UNCHANGED <<cafeCarts, activeCafeSlug>>
    /\ UNCHANGED <<now, orders, nextOrderId, menu, notifications, sinkUp,
                   cancelReq, listReq, menuReq, lastMenuRead, markedAt, resp,
                   ratings, rateReq, users, authReq>>
    /\ p \in inFlight
    /\ attempts' = [attempts EXCEPT ![p] =
          Attempt(IF ok THEN "resolved" ELSE "rejected", <<>>)]
    /\ jobs' = jobs \o [k \in 1..Len(attempts[p].waiters) |->
                           Job("resume", attempts[p].waiters[k])]
    /\ UNCHANGED <<cached, connReq>>

\* the caller has its connection or its error
ConnDone(c) ==
    /\ UNCHANGED <<cafeCarts, activeCafeSlug>>
    /\ UNCHANGED <<now, orders, nextOrderId, menu, notifications, sinkUp,
                   cancelReq, listReq, menuReq, lastMenuRead, markedAt, resp,
                   ratings, rateReq, users, authReq>>
    /\ connReq[c].pc = "done"
    /\ connReq' = [connReq EXCEPT ![c] = IdleConn]
    /\ UNCHANGED <<cached, attempts, jobs>>

\* SpecConn: calls of connectDB and the attempts' outcomes
NextConn ==
    \/ \E c \in ConnCallers : ConnArrive(c)
    \/ /\ jobs # <<>>
       /\ (Head(jobs).kind = "call" /\ cached.conn = 0
              /\ cached.promise = 0) => Len(attempts) < MaxAttempts
       /\ ConnRun
    \/ \E p \in 1..MaxAttempts, ok \in BOOLEAN : ConnSettle(p, ok)
    \/ \E c \in ConnCallers : ConnDone(c)

SpecConn == Init /\ [][NextConn]_vars

\* every operation that takes a credential, tried with credential tok
RequestWith(tok) ==
    \/ CreateOrder(tok, CartOne, TRUE)
    \/ \E id \in 1..MaxAuthOrders : AdminTransition(tok, id, "completed")
    \/ \E id \in 1..MaxAuthOrders : CancelCheck(tok, id)
    \/ ListSweep(tok)
    \/ \E id \in 1..MaxAuthOrders : DeleteOrder(tok, id)
    \/ MenuPost(tok, NewItemBody, NewItem)
    \/ MenuPatchStart(1, tok, "i1", MarkUnavailable)
    \/ MenuPatchPrice(tok, "i1", ListPrice("i1") + 2)
    \/ MenuPatchRating(tok, "i2", RATING_MAX, 1)
    \/ DeleteMenuItem(tok, "i1")
    \/ RateStart(1, tok, "i2", RatingValue(TRUE, FALSE, RATING_MIN))
    \/ NotificationsGet(tok)
    \/ \E n \in BagToSet(notifications) : MarkRead(tok, n)
    \/ NotificationPost(tok, ForgedBody)

\* the operations that ask for the administrator's role
AdminRequestWith(tok) ==
    \/ \E id \in 1..MaxAuthOrders : AdminTransition(tok, id, "completed")
    \/ \E id \in 1..MaxAuthOrders : DeleteOrder(tok, id)
    \/ MenuPost(tok, NewItemBody, NewItem)
    \/ MenuPatchStart(1, tok, "i1", MarkUnavailable)
    \/ MenuPatchPrice(tok, "i1", ListPrice("i1") + 2)
    \/ MenuPatchRating(tok, "i2", RATING_MAX, 1)
    \/ DeleteMenuItem(tok, "i1")

\* SpecAuth: a customer places an order and rates an item under the clock,
\* and every operation is tried without a usable credential and, where it is
\* the administrator's, with a customer's
NextAuth ==
    \/ now < MaxAuthTime /\ Tick
    \/ /\ AllIdle
       /\ nextOrderId <= MaxAuthOrders
       /\ Room(MaxAuthNotifs)
       /\ CreateOrder(tokU1, CartOne, TRUE)
    \/ AllIdle /\ RateStart(1, tokU1, "i2", RatingValue(TRUE, FALSE, RATING_MAX))
    \/ RateUpsert(1)
    \/ RateInsert(1)
    \/ RateAggregate(1)
    \/ RateWrite(1)
    \/ /\ AllIdle
       /\ Room(MaxAuthNotifs)
       /\ \E tok \in Refused : RequestWith(tok)
    \/ AllIdle /\ AdminRequestWith(tokU2)

SpecAuth == Init /\ [][NextAuth]_vars

----------------------------------------------------------------------------
(* The cart provider of the browser *)

\* one entry of a cart: the item, known by its id, and how many of it
CartEntry(id, quantity) == [id |-> id, quantity |-> quantity]

\* prevCarts[cafeSlug] || []
currentCartOf(prevCarts, cafeSlug) ==
    IF cafeSlug \in DOMAIN prevCarts THEN prevCarts[cafeSlug] ELSE <<>>

\* { ...prevCarts, [cafeSlug]: cart }
withCart(prevCarts, cafeSlug, cart) ==
    [slug \in DOMAIN prevCarts \cup {cafeSlug} |->
        IF slug = cafeSlug THEN cart ELSE prevCarts[slug]]

\* currentCart.find(ci => ci.item.id === item.id) found an entry
existingItem(currentCart, itemId) ==
    \E k \in 1..Len(currentCart) : currentCart[k].id = itemId

\* a cart that appends an entry whether or not the item is present
addedAlways(currentCart, itemId) ==
    Append(currentCart, CartEntry(itemId, 1))

\* the cart addToCart stores: the present item's quantity plus one, or a new
\* entry of quantity 1 at the end
added(currentCart, itemId) ==
    IF existingItem(currentCart, itemId)
    THEN [k \in 1..Len(currentCart) |->
            IF currentCart[k].id = itemId
            THEN CartEntry(itemId, currentCart[k].quantity + 1)
            ELSE currentCart[k]]
    ELSE Append(currentCart, CartEntry(itemId, 1))

\* currentCart.filter(ci => ci.item.id !== itemId)
removed(currentCart, itemId) ==
    SelectSeq(currentCart, LAMBDA ci : ci.id # itemId)

\* currentCart.map(ci => ci.item.id === itemId ? { ...ci, quantity } : ci)
requantified(currentCart, itemId, quantity) ==
    [k \in 1..Len(currentCart) |->
        IF currentCart[k].id = itemId
        THEN CartEntry(itemId, quantity)
        ELSE currentCart[k]]

\* setCafeCarts(prevCarts => carts): nothing but the carts changes, and
\* nothing leaves the browser
setCafeCarts(carts) ==
    /\ cafeCarts' = carts
    /\ UNCHANGED <<now, orders, nextOrderId, menu, notifications, sinkUp,
                   cancelReq, listReq, menuReq, lastMenuRead, markedAt, resp,
                   ratings, rateReq, users, authReq, cached, attempts, jobs,
                   connReq>>

addToCart(item, cafeSlug) ==
    /\ setCafeCarts(withCart(cafeCarts, cafeSlug,
                             added(currentCartOf(cafeCarts, cafeSlug), item)))
    /\ UNCHANGED activeCafeSlug

removeFromCart(itemId, cafeSlug) ==
    /\ setCafeCarts(withCart(cafeCarts, cafeSlug,
                             removed(currentCartOf(cafeCarts, cafeSlug),
                                     itemId)))
    /\ UNCHANGED activeCafeSlug

updateQuantity(itemId, quantity, cafeSlug) ==
    IF quantity <= 0
    THEN removeFromCart(itemId, cafeSlug)
    ELSE /\ setCafeCarts(withCart(cafeCarts, cafeSlug,
                                  requantified(currentCartOf(cafeCarts,
                                                             cafeSlug),
                                               itemId, quantity)))
         /\ UNCHANGED activeCafeSlug

clearCart(cafeSlug) ==
    /\ setCafeCarts(withCart(cafeCarts, cafeSlug, <<>>))
    /\ UNCHANGED activeCafeSlug

setActiveCafe(cafeSlug) ==
    /\ activeCafeSlug' = cafeSlug
    /\ setCafeCarts(IF cafeSlug \in DOMAIN cafeCarts
                    THEN cafeCarts
                    ELSE withCart(cafeCarts, cafeSlug, <<>>))

\* the cart of the active cafe, empty while no cafe is active
cartItems ==
    IF activeCafeSlug # NoCafe
    THEN currentCartOf(cafeCarts, activeCafeSlug)
    ELSE <<>>

\* items.reduce((sum, cartItem) => sum + cartItem.quantity, 0)
RECURSIVE reduceQuantity(_)
reduceQuantity(items) ==
    IF items = <<>> THEN 0
    ELSE Head(items).quantity + reduceQuantity(Tail(items))

totalItems == reduceQuantity(cartItems)

\* SpecCart: the calls of the cart provider, on two cafes and the menu's
\* items, with quantities up to MaxQuantity
NextCart ==
    \/ \E item \in ItemIds, cafeSlug \in CafeSlugs :
          /\ \A k \in 1..Len(currentCartOf(cafeCarts, cafeSlug)) :
                currentCartOf(cafeCarts, cafeSlug)[k].id = item
                    => currentCartOf(cafeCarts, cafeSlug)[k].quantity
                           < MaxQuantity
          /\ addToCart(item, cafeSlug)
    \/ \E itemId \in ItemIds, cafeSlug \in CafeSlugs :
          removeFromCart(itemId, cafeSlug)
    \/ \E itemId \in ItemIds, quantity \in -1..MaxQuantity,
          cafeSlug \in CafeSlugs :
          updateQuantity(itemId, quantity, cafeSlug)
    \/ \E cafeSlug \in CafeSlugs : clearCart(cafeSlug)
    \/ \E cafeSlug \in CafeSlugs : setActiveCafe(cafeSlug)

SpecCart == Init /\ [][NextCart]_vars

----------------------------------------------------------------------------
(* The order lifecycle *)

Terminal == {"rejected", "completed", "cancelled"}

\* C1: an order whose status is rejected, completed or cancelled keeps that
\* status through every later operation.
C1_TerminalIsFinal ==
    [][\A id \in DOMAIN orders :
          (orders[id].status \in Terminal /\ id \in DOMAIN orders')
              => orders'[id].status = orders[id].status]_vars

\* the condition under which the customer's cancel is to succeed
withinWindow(order, t) == t - order.createdAt <= BUFFER_TIME_MS

cancellable(order) == order.status \notin {"rejected", "cancelled"}

\* C2: the owner's cancel of an existing order gets past the checks exactly
\* when at most five minutes have passed since the order's creation and the
\* order is neither rejected nor cancelled; the save that follows stores the
\* status cancelled and answers 200, and a refused cancel does not answer 200.
C2_CancelIffInWindow ==
    [][/\ \A tok \in {tokU1, tokU2}, id \in DOMAIN orders :
             (CancelCheck(tok, id) /\ orders[id].user = tok.userId)
                 => /\ (cancelReq'.pc = "save")
                           <=> (withinWindow(orders[id], now)
                                    /\ cancellable(orders[id]))
                    /\ (cancelReq'.pc # "save") => (resp'.code # 200)
       /\ CancelSave
            => /\ cancelReq.id \in DOMAIN orders'
               /\ orders'[cancelReq.id].status = "cancelled"
               /\ resp'.op = "cancel" /\ resp'.code = 200]_vars

\* an order accepted by the administrator was cancelled by its owner exactly
\* five minutes after its creation
C2_CancelledAtFiveMinutes ==
    /\ resp.op = "cancel" /\ resp.code = 200
    /\ \E id \in DOMAIN orders :
          /\ orders[id].status = "cancelled"
          /\ resp.at - orders[id].createdAt = BUFFER_TIME_MS
          /\ BagIn(Notification(orders[id].user, id, Message("accepted", ""),
                                "order_accepted"), notifications)
          /\ BagIn(Notification(orders[id].user, id, Message("cancelled", ""),
                                "order_cancelled"), notifications)

\* C3: a cancel by a caller who is not the owner, of a rejected or cancelled
\* order, or later than five minutes after creation, ends with an error
\* response (the expired-window error when that is the only obstacle), leaves
\* every order as it was and records no notification.
C3_RefusedCancelChangesNothing ==
    [][\A tok \in {tokU1, tokU2}, id \in DOMAIN orders :
          (/\ CancelCheck(tok, id)
           /\ \/ orders[id].user # tok.userId
              \/ ~cancellable(orders[id])
              \/ ~withinWindow(orders[id], now))
              => /\ orders' = orders
                 /\ notifications' = notifications
                 /\ cancelReq'.pc = "idle"
                 /\ resp'.op = "cancel" /\ resp'.code \in {400, 403}
                 /\ (/\ orders[id].user = tok.userId
                     /\ cancellable(orders[id])) => resp'.error = WindowExpired]_vars

\* the owner's cancel of an accepted order six minutes after its creation
\* was refused, and the order is still accepted
C3_RefusedAfterWindow ==
    /\ resp.op = "cancel" /\ resp.code = 400 /\ resp.error = WindowExpired
    /\ \E id \in DOMAIN orders :
          /\ orders[id].status = "accepted"
          /\ resp.at - orders[id].createdAt > BUFFER_TIME_MS
          /\ ~BagIn(Notification(orders[id].user, id, Message("cancelled", ""),
                                 "order_cancelled"), notifications)

----------------------------------------------------------------------------
(* The auto-expiry of the listing *)

TwoMinutes == 2 * MinuteMs

C5_NoStalePendingListed ==
    (resp.op = "list" /\ resp.code = 200)
        => \A id \in DOMAIN resp.body :
              ~(/\ resp.body[id].status = "pending"
                /\ resp.body[id].createdAt < resp.at - TwoMinutes)

----------------------------------------------------------------------------
(* The availability-triggered cancellation *)

\* C6: when a menu update that marks an item unavailable has run to its end,
\* every order it found pending or accepted with the item (and still stored)
\* is cancelled and has got exactly one order_cancelled notification of the
\* item's unavailability since it was found, also while other requests and
\* a second mark-unavailable request for the item are under way.
C6_OneCancellationPerOrder ==
    [][\A s \in MenuSlots :
          (menuReq[s].pc = "loop" /\ menuReq'[s].pc = "idle")
              => \A n \in 1..Len(menuReq[s].activeOrders) :
                    LET id == menuReq[s].activeOrders[n]
                    IN id \in DOMAIN orders'
                          => /\ orders'[id].status = "cancelled"
                             /\ CopiesIn(unavailableNotice(orders'[id], id,
                                                           menuReq[s].item),
                                         notifications')
                                    = menuReq[s].base[n] + 1]_vars

\* C7: whenever no request is in flight, no pending or accepted order holds
\* a line item whose menu item is marked unavailable.
C7_NoActiveOrderWithUnavailableItem ==
    AllIdle =>
        \A id \in DOMAIN orders :
            orders[id].status \in {"pending", "accepted"}
                => \A n \in 1..Len(orders[id].items) :
                      LET item == orders[id].items[n].itemId
                      IN item \in DOMAIN menu => menu[item].isAvailable

\* C8: while the notification store fails, an order creation, an
\* administrator's transition and a customer's cancel still answer 200 with
\* the order's new state stored; a round of the availability-triggered
\* cancellation still cancels its order and goes on to the next, and when
\* the menu update ends every order it found is cancelled.
C8_NotificationFailureIsSwallowed ==
    [][/\ ~sinkUp =>
             /\ \A cart \in {CartBoth, CartOne} :
                   CreateOrder(tokU1, cart, TRUE)
                       => /\ resp'.code = 200
                          /\ nextOrderId \in DOMAIN orders'
                          /\ orders'[nextOrderId].status = "pending"
             /\ \A id \in DOMAIN orders, st \in Statuses :
                   AdminTransition(tokAdmin, id, st)
                       => resp'.code = 200 /\ orders'[id].status = st
             /\ CancelSave
                   => /\ resp'.code = 200
                      /\ orders'[cancelReq.id].status = "cancelled"
             /\ MenuPatchCancel(1)
                   => LET r == menuReq[1]
                      IN /\ orders'[r.activeOrders[r.k]].status = "cancelled"
                         /\ IF r.k < Len(r.activeOrders)
                            THEN menuReq'[1] = [r EXCEPT !.k = r.k + 1]
                            ELSE menuReq'[1].pc = "idle" /\ resp'.code = 200
       /\ (menuReq[1].pc = "loop" /\ menuReq'[1].pc = "idle")
             => /\ resp'.op = "menuPatch" /\ resp'.code = 200
                /\ \A n \in 1..Len(menuReq[1].activeOrders) :
                      orders'[menuReq[1].activeOrders[n]].status = "cancelled"
      ]_vars

\* the availability-triggered cancellation found two orders, cancelled the
\* first without being able to record its notification, and went on to the
\* second
C8_LoopWentOnAfterFailure ==
    /\ menuReq[1].pc = "loop"
    /\ menuReq[1].k = 2
    /\ LET id == menuReq[1].activeOrders[1]
       IN /\ orders[id].status = "cancelled"
          /\ ~BagIn(unavailableNotice(orders[id], id, menuReq[1].item),
                    notifications)

----------------------------------------------------------------------------
(* The daily restoration *)

\* C9: a menu read returns an unavailable item that was last marked
\* unavailable before 09:00 of the day of the read as available when the
\* read is at or after 09:00 and as unavailable when it is before 09:00,
\* whatever else was written to the item since the marking.
C9_RestoredFromNine ==
    [][MenuGet =>
          \A i \in DOMAIN menu :
              (~menu[i].isAvailable /\ markedAt[i] < todayAt9AM(now))
                  => resp'.body[i].isAvailable = afterNine(now)]_vars

\* C10: a menu read that follows, with no menu write in between, a menu read
\* made at or after 09:00 of the same day changes no menu item and returns
\* every item with the availability the earlier read returned.
C10_RestorationIdempotent ==
    [][(/\ MenuGet
        /\ lastMenuRead # <<>>
        /\ sameDay(lastMenuRead.at, now)
        /\ afterNine(lastMenuRead.at))
           => /\ menu' = menu
              /\ \A i \in DOMAIN menu :
                    resp'.body[i].isAvailable
                        = lastMenuRead.items[i].isAvailable]_vars

\* the second of two reads after 09:00 of a day has been served, the later
\* one an hour after the first, with one item unavailable and one restored
\* that day
C10_SecondReadServed ==
    /\ lastMenuRead # <<>>
    /\ lastMenuRead.again
    /\ resp.op = "menuGet" /\ getHours(resp.at) = 10
    /\ \E i \in DOMAIN menu : ~menu[i].isAvailable
    /\ \E i \in DOMAIN menu :
          /\ menu[i].isAvailable
          /\ sameDay(menu[i].updatedAt, now)
          /\ getHours(menu[i].updatedAt) = 9
          /\ markedAt[i] < menu[i].updatedAt

----------------------------------------------------------------------------
(* Manual availability changes *)

\* C11: a menu read returns as unavailable every unavailable item whose last
\* marking was at or after 09:00 of its day, as long as the read is before
\* 09:00 of the following day; and it returns every available item, an
\* item added back included, as available at any time of day.
C11_ManualChangeStands ==
    [][MenuGet =>
          \A i \in DOMAIN menu :
              /\ (/\ ~menu[i].isAvailable
                  /\ afterNine(markedAt[i])
                  /\ now < todayAt9AM(markedAt[i]) + DayMs)
                     => ~resp'.body[i].isAvailable
              /\ menu[i].isAvailable => resp'.body[i].isAvailable]_vars

\* a menu read at 08:00 returned unavailable an item that was marked
\* unavailable after 09:00 of the day before
C11_StillUnavailableNextMorning ==
    /\ resp.op = "menuGet" /\ getHours(resp.at) = 8
    /\ \E i \in DOMAIN resp.body :
          /\ ~resp.body[i].isAvailable
          /\ afterNine(markedAt[i])
          /\ todayAt9AM(markedAt[i]) + DayMs = todayAt9AM(resp.at)

----------------------------------------------------------------------------
(* Ratings *)

WholeStars == {100, 200, 300, 400, 500}

NotEligible == "You can only rate items you have ordered"

\* C12: a customer's rating of an existing item with a whole value from 1 to
\* 5 gets past the checks exactly when a stored order of that customer, of
\* any status, has a line item with the item's identifier; past the checks
\* it ends with 200 and the customer's row stored, and refused for want of
\* such an order it answers 403 and changes no rating row and no menu item.
C12_RatingIffOrdered ==
    [][/\ \A tok \in {tokU1, tokU2}, item \in DOMAIN menu,
             v \in {x \in RatingValues :
                       x.given /\ ~x.nan /\ x.num \in WholeStars} :
             RateStart(1, tok, item, v)
                 => LET ordered ==
                            \E id \in DOMAIN orders :
                                /\ orders[id].user = tok.userId
                                /\ \E n \in 1..Len(orders[id].items) :
                                      orders[id].items[n].itemId = item
                    IN /\ (rateReq'[1].pc = "upsert") <=> ordered
                       /\ ~ordered
                             => /\ resp'.code = 403
                                /\ resp'.error = NotEligible
                                /\ ratings' = ratings /\ menu' = menu
       /\ (rateReq[1].pc # "idle" /\ rateReq'[1].pc = "idle")
             => /\ resp'.op = "rating" /\ resp'.code = 200
                /\ BagIn(Row(rateReq[1].user, rateReq[1].menuItem,
                             rateReq[1].numericRating), ratings')]_vars

\* a rating was accepted from a customer all of whose orders are rejected
C12_RatedAfterRejection ==
    /\ resp.op = "rating" /\ resp.code = 200
    /\ \E r \in BagToSet(ratings) :
          /\ \E id \in DOMAIN orders : orders[id].user = r.user
          /\ \A id \in DOMAIN orders :
                orders[id].user = r.user => orders[id].status = "rejected"

\* C13: whenever no request is in flight, every menu item's stored rating
\* is the mean of the item's rating rows rounded to two decimals (0 with no
\* row) and its ratingCount is the number of those rows.
C13_StoredAverageIsMean ==
    AllIdle =>
        \A i \in DOMAIN menu :
            LET S == {r \in BagToSet(ratings) : r.menuItem = i}
                n == CountRows(S, ratings)
            IN /\ menu[i].ratingCount = n
               /\ menu[i].rating =
                     IF n = 0 THEN 0 ELSE toFixed2(SumRatings(S, ratings), n)

\* C14: in every state, also with rating requests under way at once, each
\* (user, item) has at most one rating row; and a rating request that no
\* other rating request overlapped ends with the customer's one row holding
\* the submitted value, the item's ratingCount equal to the number of
\* distinct users with a row for it, and its rating equal to the mean of
\* those rows rounded to two decimals.
C14_OneRowPerUserAndItem ==
    [][/\ \A r \in BagToSet(ratings') : CopiesIn(r, ratings') = 1
       /\ \A r1, r2 \in BagToSet(ratings') :
             (r1.user = r2.user /\ r1.menuItem = r2.menuItem) => r1 = r2
       /\ \A s \in RateSlots :
             (RateWrite(s) /\ rateReq[s].alone)
                 => LET q == rateReq[s]
                        S == {r \in BagToSet(ratings') : r.menuItem = q.menuItem}
                        n == Cardinality({r.user : r \in S})
                    IN /\ BagIn(Row(q.user, q.menuItem, q.numericRating),
                                ratings')
                       /\ menu'[q.menuItem].ratingCount = n
                       /\ menu'[q.menuItem].rating =
                             toFixed2(SumRatings(S, ratings'), n)]_vars

\* two customers have rated the item with 1 and with 5, and the stored
\* count is 2 and the stored average 3
C14_TwoUsersRated ==
    /\ resp.op = "rating" /\ resp.code = 200
    /\ resp.body = [rating |-> 300, ratingCount |-> 2]
    /\ BagToSet(ratings) = {Row("u1", "i2", RATING_MIN), Row("u2", "i2", RATING_MAX)}
    /\ menu["i2"].rating = 300 /\ menu["i2"].ratingCount = 2
    /\ AllIdle

\* C15: every stored rating value is a whole number from 1 to 5; a rating
\* request whose value is not a whole number from 1 to 5 is answered with
\* the range error, and one with such a value for an item that does not
\* exist with 404, and neither changes a rating row or a menu item.
C15_OnlyWholeStarsStored ==
    [][/\ \A r \in BagToSet(ratings') : r.rating \in WholeStars
       /\ \A tok \in {tokU1, tokU2}, item \in {"i1", "i2", NoItem},
             v \in {x \in RatingValues : x.given} :
             RateStart(1, tok, item, v)
                 => LET whole == ~v.nan /\ v.num \in WholeStars
                    IN /\ ~whole
                             => /\ resp'.code = 400
                                /\ resp'.error = "Rating must be between 1 and 5"
                                /\ UNCHANGED <<ratings, menu, rateReq>>
                       /\ (whole /\ item \notin DOMAIN menu)
                             => /\ resp'.code = 404
                                /\ UNCHANGED <<ratings, menu, rateReq>>]_vars

\* the sum of price times quantity over an order's line-item snapshots
RECURSIVE snapshotTotal(_, _)
snapshotTotal(items, k) ==
    IF k = 0 THEN 0
    ELSE items[k].price * items[k].quantity + snapshotTotal(items, k - 1)

\* C16: an order's totalAmount is the sum of price times quantity over its
\* line-item snapshots as supplied at creation, and no later step (admin
\* transition, customer cancel, sweep, availability flip, menu price edit,
\* menu item deletion, rating submission) changes the line items or the
\* totalAmount of an order that stays stored.
C16_SnapshotsAreFrozen ==
    [][/\ \A id \in DOMAIN orders' :
            orders'[id].totalAmount =
                snapshotTotal(orders'[id].items, Len(orders'[id].items))
       /\ \A id \in DOMAIN orders \cap DOMAIN orders' :
            /\ orders'[id].items = orders[id].items
            /\ orders'[id].totalAmount = orders[id].totalAmount]_vars

\* an order that the availability flip cancelled still carries the price of
\* 10 it was placed at, after the menu re-priced the item at 12
C16_KeptAfterPriceEdit ==
    /\ 1 \in DOMAIN orders
    /\ orders[1].status = "cancelled"
    /\ orders[1].items = CartBoth
    /\ orders[1].totalAmount = 25
    /\ "i1" \in DOMAIN menu
    /\ menu["i1"].price = ListPrice("i1") + 2
    /\ ~menu["i1"].isAvailable

\* C17: an order creation whose token jwt.verify refuses is answered 401
\* (AuthError); with a valid token, one whose line-item list is empty or whose
\* customer name, phone or address is empty is answered 400
\* (ValidationError); in each of these cases no order is stored and no
\* notification is recorded.
C17_RefusedCreationStoresNothing ==
    [][\A tok \in Tokens, body \in OrderBodies :
         (/\ PostOrders(tok, body)
          /\ \/ ~tok.valid
             \/ body.items = <<>>
             \/ body.customerName = ""
             \/ body.customerPhone = ""
             \/ body.customerAddress = "")
         => (/\ resp'.code = (IF tok.valid THEN 400 ELSE 401)
             /\ orders' = orders
             /\ nextOrderId' = nextOrderId
             /\ notifications' = notifications)]_vars

\* a creation was refused with 400 after an order had been stored, and the
\* stored order is still the only one
C17_RefusedAfterOneStored ==
    /\ DOMAIN orders = {1}
    /\ resp.op = "createOrder"
    /\ resp.code = 400
    /\ resp.error = "Customer information is required"

placedFor(userId, id) ==
    Notification(userId, id, Message("placed", ""), "order_placed")

\* what a creation answered 200 has done: the order is stored pending under
\* the token's user whatever status the body named
storedPending(tok) ==
    /\ DOMAIN orders' = DOMAIN orders \cup {nextOrderId}
    /\ nextOrderId \notin DOMAIN orders
    /\ orders'[nextOrderId].status = "pending"
    /\ orders'[nextOrderId].user = tok.userId

\* C18 as stated: every creation answered 200 stores the order pending under
\* the token's user and records exactly one order_placed notification
\* addressed to that user.
C18_CreatedPendingWithOneNotice ==
    [][\A tok \in Tokens, body \in OrderBodies :
         (PostOrders(tok, body) /\ resp'.code = 200)
         => (/\ storedPending(tok)
             /\ notifications' =
                  notifications (+) SetToBag({placedFor(tok.userId, nextOrderId)}))]_vars

\* C18: every creation answered 200 stores the order pending under the
\* token's user whatever status the body named, and records exactly one
\* order_placed notification addressed to that user when the notification
\* store takes the insert, and none when the insert fails.
C18_CreatedPendingNoticeIfStoreUp ==
    [][\A tok \in Tokens, body \in OrderBodies :
         (PostOrders(tok, body) /\ resp'.code = 200)
         => (/\ storedPending(tok)
             /\ notifications' =
                  IF sinkUp
                  THEN notifications (+) SetToBag({placedFor(tok.userId, nextOrderId)})
                  ELSE notifications)]_vars

\* two orders were created, the first with its notification and the second
\* while the notification store was failing
C18_SecondCreatedWithoutNotice ==
    /\ DOMAIN orders = {1, 2}
    /\ \A id \in {1, 2} : orders[id].status = "pending"
    /\ resp.op = "createOrder" /\ resp.code = 200
    /\ BagCardinality(notifications) = 1
    /\ BagIn(placedFor(orders[1].user, 1), notifications)

\* the four statuses the administrator's transition is specified to take
TransitionTargets == {"accepted", "rejected", "completed", "cancelled"}

\* the notification category that goes with a status
categoryOf(st) ==
    CASE st = "accepted" -> "order_accepted"
      [] st = "rejected" -> "order_rejected"
      [] st = "completed" -> "order_completed"
      [] st = "cancelled" -> "order_cancelled"
      [] OTHER -> "none"

\* C19: every administrator transition answered 200 records exactly one
\* notification, addressed to the order's owner and of the category of the
\* new status; one naming an order that is not stored is answered 404 and
\* records none.
C19_OneNoticePerTransition ==
    [][\A id \in 1..(MaxAdminOrders + 1), st \in Statuses :
         AdminTransition(tokAdmin, id, st)
         => /\ (resp'.code = 200) =>
                 (/\ id \in DOMAIN orders
                  /\ \E n \in BagToSet(notifications') :
                       /\ notifications' = notifications (+) SetToBag({n})
                       /\ n.user = orders[id].user
                       /\ n.orderId = id
                       /\ n.type = categoryOf(st))
            /\ (id \notin DOMAIN orders) =>
                 (resp'.code = 404 /\ notifications' = notifications)]_vars

\* C20: an administrator transition of a stored order to anything but
\* accepted, rejected, completed or cancelled, pending included, is answered
\* 400 and leaves the order's status as it was.
C20_OnlyFourTargets ==
    [][\A id \in DOMAIN orders, st \in PatchStatuses \ TransitionTargets :
         AdminTransition(tokAdmin, id, st)
         => (resp'.code = 400 /\ orders' = orders)]_vars

\* C21: a request to an operation that takes a credential, made with no
\* Authorization header, a header that is not a bearer one, or a token that
\* is malformed, badly signed or expired, and a request to an
\* administrator's operation made with a customer's token, is answered 401
\* or 403 and leaves every order, menu item, rating and notification as it
\* was, the auto-expiry sweep not applied.
C21_RejectedChangesNothing ==
    [][((\E tok \in Refused : RequestWith(tok)) \/ AdminRequestWith(tokU2))
       => (/\ resp'.code \in {401, 403}
           /\ UNCHANGED <<orders, menu, ratings, notifications>>)]_vars

\* C22: the listing a customer gets holds exactly the stored orders whose
\* user is that customer, as they are stored, whatever orders other users
\* hold; the listing an administrator gets holds every stored order.
C22_ListingIsOwnOrders ==
    [][(listReq.pc = "read" /\ ListRead)
       => (/\ resp'.code = 200
           /\ DOMAIN resp'.body =
                IF listReq.tok.role = "admin" THEN DOMAIN orders
                ELSE {id \in DOMAIN orders : orders[id].user = listReq.tok.userId}
           /\ \A id \in DOMAIN resp'.body : resp'.body[id] = orders[id])]_vars

\* a customer's listing came back with order 1 alone while order 2, of the
\* other customer, was stored
C22_OtherCustomersOrderLeftOut ==
    /\ resp.op = "list" /\ resp.code = 200
    /\ DOMAIN orders = {1, 2}
    /\ orders[1].user = "u1" /\ orders[2].user = "u2"
    /\ DOMAIN resp.body = {1}

\* the orders that were stored once and have been deleted
Deleted == (1..(nextOrderId - 1)) \ DOMAIN orders

\* C26: a deletion answered 200 comes from an administrator, and an
\* administrator's deletion of a stored order is answered 200 whatever the
\* order's status; it removes the order and no notification. From then on the
\* order is in no listing, and a transition, a customer cancel or a deletion
\* naming it is answered 404.
C26_DeletedStaysDeleted ==
    [][/\ \A tok \in {tokAdmin, tokU1}, id \in 1..MaxListOrders :
            DeleteOrder(tok, id)
            => /\ (resp'.code = 200) <=> (tok.role = "admin" /\ id \in DOMAIN orders)
               /\ (resp'.code = 200) => (DOMAIN orders' = DOMAIN orders \ {id})
               /\ notifications' = notifications
       /\ \A id \in Deleted :
            /\ id \notin DOMAIN orders'
            /\ (listReq.pc = "read" /\ ListRead) => id \notin DOMAIN resp'.body
            /\ \A st \in {"accepted", "completed"} :
                  AdminTransition(tokAdmin, id, st) => resp'.code = 404
            /\ \A tok \in {tokU1, tokU2} :
                  CancelCheck(tok, id) => resp'.code = 404
            /\ DeleteOrder(tokAdmin, id) => resp'.code = 404]_vars

\* order 1 was deleted after it had been completed, its two notifications
\* are still stored, and a later request naming it was answered 404
C26_NotificationsOutliveOrder ==
    /\ 1 \in Deleted
    /\ resp.code = 404
    /\ \E n \in BagToSet(notifications) :
          n.orderId = 1 /\ n.type = "order_completed"
    /\ \E n \in BagToSet(notifications) :
          n.orderId = 1 /\ n.type = "order_placed"

\* C23: a step leaves the stored notifications alone, adds to them, or
\* turns one unread notification into the same notification read, so that a
\* read flag goes from false to true only and the user, order, message and
\* category stay as created; a mark-read by a caller who is not the
\* notification's user is answered 403 and changes nothing, and a mark-read
\* of a notification already read leaves it read.
C23_ReadFlagOnlyRises ==
    [][/\ \/ notifications \sqsubseteq notifications'
          \/ \E n \in BagToSet(notifications) :
                /\ ~n.read
                /\ notifications' = (notifications (-) SetToBag({n}))
                                       (+) SetToBag({[n EXCEPT !.read = TRUE]})
       /\ \A tok \in {tokU1, tokU2, tokAdmin}, n \in BagToSet(notifications) :
            MarkRead(tok, n)
            => /\ (n.user # tok.userId)
                    => (resp'.code = 403 /\ notifications' = notifications)
               /\ (n.user = tok.userId /\ n.read)
                    => (resp'.code = 200 /\ notifications' = notifications)]_vars

\* a notification has been marked read, and a mark-read by someone who is
\* not the user of the notification named has just been refused
C23_ReadAndRefused ==
    /\ resp.op = "markRead" /\ resp.code = 403
    /\ \E n \in BagToSet(notifications) : n.read /\ n.type = "order_placed"

\* what the order handlers write into a notification's message
SystemMessages == {"placed", "accepted", "rejected", "completed", "cancelled"}

\* C24: every stored notification references a stored order, is addressed to
\* that order's user and carries a text of the order handlers; none has a
\* user, order, text and category chosen by a caller.
C24_NotificationsComeFromOrders ==
    \A n \in BagToSet(notifications) :
        /\ n.orderId \in DOMAIN orders
        /\ n.user = orders[n.orderId].user
        /\ n.message[1] \in SystemMessages

\* the usernames held, with their multiplicity
Handles == {users[id].username : id \in DOMAIN users}

\* C25: no two stored users have the same username; a registration or an
\* update of credentials whose save would give a user a username another
\* user holds is answered 400 with the text of the conflict and leaves the
\* users as they were. With the first, of two overlapping requests for one
\* username at most one is stored.
C25_HandlesAreUnique ==
    [][/\ \A a, b \in DOMAIN users' :
            (users'[a].username = users'[b].username) => (a = b)
       /\ \A s \in AuthSlots :
            /\ \A id \in NewUserIds :
                  (RegisterSave(s, id) /\ trim(authReq[s].username) \in Handles)
                  => (/\ resp'.code = 400
                      /\ resp'.error = "Username already exists"
                      /\ users' = users)
            /\ (/\ RenameSave(s)
                /\ \E id \in DOMAIN users \ {authReq[s].user} :
                      users[id].username = authReq[s].username)
               => (/\ resp'.code = 400
                   /\ resp'.error = "Username already taken"
                   /\ users' = users)]_vars

\* two overlapping requests for the name cat both passed their checks: one
\* has been stored and the other stands before its save
C25_SecondOfTwoBeforeSave ==
    \E s \in AuthSlots :
        /\ authReq[s].pc = "save"
        /\ trim(authReq[s].username) = "cat"
        /\ resp.code = 200
        /\ \E id \in DOMAIN users \ {authReq[s].user} : users[id].username = "cat"

\* C27: after every step each stored order has one of the five statuses,
\* at least one line item and a quantity of 1 or more on every line item; a
\* creation with no line item or with a quantity below 1 is refused and
\* stores no order.
C27_StoredOrdersAreWellFormed ==
    [][/\ \A id \in DOMAIN orders' :
            /\ orders'[id].status \in
                  {"pending", "accepted", "rejected", "completed", "cancelled"}
            /\ Len(orders'[id].items) >= 1
            /\ \A k \in 1..Len(orders'[id].items) :
                  orders'[id].items[k].quantity >= 1
       /\ \A cart \in {<<>>, CartZeroQty} :
            CreateOrder(tokU1, cart, TRUE)
            => (resp'.code \in {400, 500} /\ orders' = orders)]_vars

\* an order was stored and completed, and a creation with a quantity of 0
\* has just been refused
C27_ZeroQuantityRefused ==
    /\ DOMAIN orders = {1}
    /\ orders[1].status = "completed"
    /\ resp.op = "createOrder"
    /\ resp.code = 500

\* C28: once two customers' rating requests for the same item, run at the
\* same time, have both completed, the item's stored rating and
\* ratingCount are the rounded mean and the number of its rating rows.
C28_BothRatingsReflected ==
    (/\ \A s \in RateSlots : rateReq[s].pc = "idle"
     /\ {r.user : r \in {x \in BagToSet(ratings) : x.menuItem = "i2"}}
            = {"u1", "u2"})
        => /\ menu["i2"].rating = aggregate(ratings, "i2").rating
           /\ menu["i2"].ratingCount = aggregate(ratings, "i2").ratingCount

\* C29: a cancellation never overwrites a completed or rejected that the
\* administrator wrote between the cancellation's read and its write. The
\* availability loop reads only pending and accepted orders and the
\* customer's cancel refuses a rejected one, so a completed or rejected met
\* by the loop's save, and a rejected met by the customer's save, was
\* written since the read: the save leaves it as it is.
C29_CancelKeepsLaterVerdict ==
    [][\A id \in DOMAIN orders :
          /\ ((\E s \in MenuSlots : MenuPatchCancel(s))
                 /\ orders[id].status \in {"completed", "rejected"})
                => orders'[id].status = orders[id].status
          /\ (CancelSave /\ orders[id].status = "rejected")
                => orders'[id].status = "rejected"]_vars

\* C30: however the calls of connectDB interleave, at most one connection
\* attempt is in flight at a time.
C30_OneAttemptInFlight == Cardinality(inFlight) <= 1

----------------------------------------------------------------------------
(* Frames of the sweep, the menu update and the restoration *)

C32_PendingEventuallyLeft ==
    \A id \in 1..MaxLiveOrders :
        (id \in DOMAIN orders /\ orders[id].status = "pending")
            ~> (id \notin DOMAIN orders \/ orders[id].status # "pending")

\* a listing by u1 returned u1's order cancelled, and nobody had acted on
\* the order: its only notification is that of its placement
C32_ExpiredUntouched ==
    /\ resp.op = "list" /\ resp.code = 200
    /\ 1 \in DOMAIN resp.body
    /\ resp.body[1].status = "cancelled"
    /\ \A n \in BagToSet(notifications) :
          n.orderId = 1 => n.type = "order_placed"

\* C33: a menu update that does not take the item from available to
\* unavailable changes no order and records no notification; one that does
\* changes only pending and accepted orders holding the item; and every
\* update that stores as unavailable an item that was available goes on to
\* the cancellation.
C33_CancellationIffFlipped ==
    [][/\ ((menu' # menu \/ menuReq' # menuReq) /\ menuReq[1].pc # "loop")
             => (orders' = orders /\ notifications' = notifications)
       /\ menuReq[1].pc = "loop"
             => \A id \in DOMAIN orders :
                   orders'[id] # orders[id]
                      => /\ orders[id].status \in {"pending", "accepted"}
                         /\ HasItem(orders[id], menuReq[1].item)
       /\ (menuReq[1].pc = "update" /\ menuReq[1].item \in DOMAIN menu)
             => (menuReq'[1].pc = "find"
                    <=> (/\ menu[menuReq[1].item].isAvailable
                         /\ ~menu'[menuReq[1].item].isAvailable))]_vars

\* C34: a step that makes an unavailable item available again, and every
\* step of a menu update whose body sets isAvailable to true, changes no
\* order and records no notification.
C34_RestoringChangesNoOrder ==
    [][((\E i \in DOMAIN menu \cap DOMAIN menu' :
            ~menu[i].isAvailable /\ menu'[i].isAvailable)
        \/ (menuReq[1].pc # "idle" /\ menuReq[1].has /\ menuReq[1].val))
          => (orders' = orders /\ notifications' = notifications)]_vars

\* a menu read has just restored i1 by the 09:00 rule, and the order that
\* was cancelled because i1 was unavailable is still cancelled
C34_RestoredOrderStillCancelled ==
    /\ resp.op = "menuGet"
    /\ menu["i1"].isAvailable
    /\ menu["i1"].updatedAt = now
    /\ 1 \in DOMAIN orders
    /\ orders[1].status = "cancelled"
    /\ BagIn(unavailableNotice(orders[1], 1, "i1"), notifications)

----------------------------------------------------------------------------
(* Roles *)

\* C35: a user created by registration has the role "user" whatever the
\* body holds, no request changes a stored user's role or removes a user,
\* a login's token carries the stored role, and an administrator-only
\* operation tried with a login's token succeeds only for a user whose
\* stored role is "admin".
C35_RolesNeverRise ==
    [][/\ \A id \in DOMAIN users :
             id \in DOMAIN users' /\ users'[id].role = users[id].role
       /\ \A id \in DOMAIN users' \ DOMAIN users : users'[id].role = "user"
       /\ (resp' # resp /\ resp'.op = "login" /\ resp'.code = 200)
             => resp'.body.role = users[resp'.body.userId].role
       /\ (loggedIn /\ resp'.op = "menuPatch" /\ resp'.code = 200)
             => users[resp.body.userId].role = "admin"]_vars

\* a user registered with role "admin" in the body is stored, another user
\* has been renamed, and the price edit tried with a customer's token has
\* just been refused with 403
C35_CustomerRefusedAfterAll ==
    /\ "u3" \in DOMAIN users
    /\ users["u3"].username = "cat"
    /\ users["u1"].username = "dan"
    /\ resp.op = "menuPatch"
    /\ resp.code = 403
    /\ menu["i1"].price = ListPrice("i1")

----------------------------------------------------------------------------
(* The carts *)

\* the quantity a cart holds of an item, over all its entries of that item
RECURSIVE quantityOfItems(_, _)
quantityOfItems(currentCart, ids) ==
    IF ids = {} THEN 0
    ELSE LET id == CHOOSE i \in ids : TRUE
             held == {k \in 1..Len(currentCart) : currentCart[k].id = id}
         IN  (IF held = {} THEN 0
              ELSE currentCart[CHOOSE k \in held : TRUE].quantity)
             + quantityOfItems(currentCart, ids \ {id})

\* every cart holds an item at most once, with a quantity of one or more
cartsWellFormed ==
    \A slug \in DOMAIN cafeCarts :
        LET cart == cafeCarts[slug] IN
        /\ \A k, l \in 1..Len(cart) : cart[k].id = cart[l].id => k = l
        /\ \A k \in 1..Len(cart) :
              /\ cart[k].quantity \in Nat
              /\ cart[k].quantity >= 1

\* the carts of every cafe but cafeSlug are what they were
otherCartsKept(cafeSlug) ==
    /\ DOMAIN cafeCarts' \ {cafeSlug} = DOMAIN cafeCarts \ {cafeSlug}
    /\ \A slug \in DOMAIN cafeCarts \ {cafeSlug} :
          cafeCarts'[slug] = cafeCarts[slug]

\* C36: after any calls of addToCart, updateQuantity, removeFromCart,
\* clearCart and setActiveCafe, every cafe's cart holds at most one entry per
\* item id and every entry has a quantity of at least 1; totalItems is the
\* sum of the active cafe's quantities; addToCart of an item that is present
\* raises its quantity by 1 and leaves the other entries alone, updateQuantity
\* to a value of 0 or less removes the entry; and a call on one cafe's cart
\* leaves every other cafe's cart as it was.
C36_CartsWellFormed ==
    /\ [](/\ cartsWellFormed
          /\ totalItems = quantityOfItems(cartItems, ItemIds))
    /\ [][\A item \in ItemIds, cafeSlug \in CafeSlugs :
            LET before == currentCartOf(cafeCarts, cafeSlug)
                after == currentCartOf(cafeCarts', cafeSlug)
            IN
            /\ addToCart(item, cafeSlug) =>
                  /\ otherCartsKept(cafeSlug)
                  /\ existingItem(before, item) =>
                        /\ Len(after) = Len(before)
                        /\ \A k \in 1..Len(before) :
                              after[k] =
                                  IF before[k].id = item
                                  THEN CartEntry(item, before[k].quantity + 1)
                                  ELSE before[k]
                  /\ ~existingItem(before, item) =>
                        after = Append(before, CartEntry(item, 1))
            /\ \A quantity \in -1..MaxQuantity :
                  updateQuantity(item, quantity, cafeSlug) =>
                      /\ otherCartsKept(cafeSlug)
                      /\ quantity <= 0 => ~existingItem(after, item)
            /\ removeFromCart(item, cafeSlug) => otherCartsKept(cafeSlug)
            /\ clearCart(cafeSlug) => otherCartsKept(cafeSlug)
            /\ setActiveCafe(cafeSlug) =>
                  /\ otherCartsKept(cafeSlug)
                  /\ after = before]_vars

\* both cafes hold a cart of their own: the active one two of an item after
\* a second addToCart, the other a different item, and totalItems counts the
\* active cafe's only
C36_TwoCartsFilled ==
    /\ activeCafeSlug = "aroma"
    /\ DOMAIN cafeCarts = CafeSlugs
    /\ cafeCarts["aroma"] = <<CartEntry("i1", 2), CartEntry("i2", 1)>>
    /\ cafeCarts["delight"] = <<CartEntry("i2", MaxQuantity)>>
    /\ totalItems = 3

====
